---- MODULE Spec2Model ----
(***************************************************************************)
(* Forensic traceability core of CRM-EXO v2: the event ledger              *)
(* (historial_general), the hash index (hash_registros), the repositories  *)
(* that write them and the cross verifier that reads them.                 *)
(*                                                                         *)
(* A database is a record of the two ledgers and the domain tables.  `db`  *)
(* is the committed database; `tx` is what the shared sqlite3 connection   *)
(* sees (committed rows plus the rows of its open transaction).  A digest  *)
(* is modelled as the string "sha256(" \o preimage \o ")": the hash is     *)
(* taken to be collision free, so two digests are equal exactly when the   *)
(* serialized payloads are.                                                *)
(***************************************************************************)
EXTENDS Integers, Sequences, FiniteSets, TLC

\* ---------------------------------------------------------------- bounds
MaxOps == 2        \* operations of one behaviour
MaxReloj == 1      \* last clock value
MaxId == 2         \* record ids a caller may pass
Valores == {"x", "y"}   \* payloads a caller may pass

Ids == 1..MaxId
Avances == {0, 1}       \* clock advance between two clock reads

Tablas == {"empresas", "contactos", "prospectos", "oportunidades", "cotizaciones",
           "atributos_entidad", "facturas", "ordenes_compra"}

NULL == "NULL"

VARIABLES
    modo,          \* "inyectada": repositories share the injected connection; "propia": each call connects
    con_abierta,   \* the shared connection is open
    db,            \* committed database
    tx,            \* database as seen through the shared connection
    reloj,         \* wall clock
    nops,          \* operations executed so far
    ret,           \* outcome of the last operation
    limpio,        \* TRUE while every operation so far was a successful AUPRepository one
    hilos,         \* position of each thread inside registrar_evento
    lector,        \* position of the thread that runs a query statement by statement
    cotizacion     \* a Cotizacion object in memory

vars == <<modo, con_abierta, db, tx, reloj, nops, ret, limpio, hilos, lector, cotizacion>>

\* ------------------------------------------------------------ formatting
\* str(int)
Str(n) == <<"0", "1", "2", "3", "4", "5", "6", "7", "8", "9", "10", "11", "12">>[n + 1]

\* datetime.now(UTC).isoformat()
IsoUTC(t) == "T" \o Str(t) \o "+00:00"

\* datetime.utcnow().isoformat() / datetime.now().isoformat()
IsoNaive(t) == "T" \o Str(t)

\* SQLite CURRENT_TIMESTAMP column default
CurrentTimestamp(t) == "D " \o Str(t)

\* json.dumps of a payload dictionary
JsonDumps(v) == "{" \o v \o "}"

\* hashlib.sha256(raw).hexdigest()
Sha256(raw) == "sha256(" \o raw \o ")"

\* -------------------------------------------------------------- database
\* Beside the columns, a ledger row carries three history fields no query
\* reads: `via` (the code path that wrote it), `llamada` (the call that wrote
\* it, 0 for the rows of the bootstrap) and, on events, `sellado` (the
\* timestamp string that went into the digest, NULL when no digest was made).
\* Rows written by init_db_v2.py: the DB_INIT event and the structure hash.
SemillaEvento ==
    [id_evento |-> 1, entidad |-> "sistema", id_entidad |-> 0, accion |-> "DB_INIT",
     valor_anterior |-> NULL, valor_nuevo |-> "init", usuario |-> "system",
     timestamp |-> IsoNaive(0),
     hash_evento |-> Sha256("{accion:DB_INIT,entidad:sistema,id_entidad:0,timestamp:"
                            \o IsoNaive(0)
                            \o ",usuario:system,valor_anterior:,valor_nuevo:init}"),
     sellado |-> IsoNaive(0), llamada |-> 0, via |-> "init_db_v2"]

SemillaHash ==
    [id_hash |-> 1, tabla_origen |-> "estructura", id_registro |-> 0,
     hash_sha256 |-> Sha256("archivo"), timestamp |-> CurrentTimestamp(0),
     llamada |-> 0, via |-> "init_db_v2"]

\* A database in use: the bootstrap rows and one oportunidad entered from the
\* Streamlit form, which records its event without a hash record.
SemillaOportunidad ==
    [id_evento |-> 2, entidad |-> "oportunidad", id_entidad |-> 1, accion |-> "CREAR",
     valor_anterior |-> NULL, valor_nuevo |-> "Oportunidad: x", usuario |-> "ui",
     timestamp |-> IsoNaive(0),
     hash_evento |-> Sha256("oportunidad|CREAR|Oportunidad: x|" \o IsoNaive(0)),
     sellado |-> IsoNaive(0), llamada |-> 0, via |-> "app_crm_exo_v2"]

DBInicial ==
    [historial_general |-> <<SemillaEvento, SemillaOportunidad>>,
     hash_registros |-> <<SemillaHash>>,
     tablas |-> [t \in Tablas |->
                    IF t = "oportunidades"
                    THEN <<[val |-> "x", ref |-> 1, vivo |-> TRUE, orig |-> "x",
                            estado |-> "abierta", tipo_cliente |-> "prospecto",
                            id_cliente |-> 0]>>
                    ELSE <<>>]]

\* The database app_crm_exo_v2.py inicializar_db() creates when none exists: the
\* same tables, no row in either ledger.
DBVacia ==
    [historial_general |-> <<>>, hash_registros |-> <<>>, tablas |-> [t \in Tablas |-> <<>>]]

\* An event recorded from a Streamlit form: app_crm_exo_v2.py registrar_evento.
EventoUI(id_evento, entidad, valor_nuevo) ==
    [id_evento |-> id_evento, entidad |-> entidad, id_entidad |-> 1, accion |-> "CREAR",
     valor_anterior |-> NULL, valor_nuevo |-> valor_nuevo, usuario |-> "ui",
     timestamp |-> IsoNaive(0),
     hash_evento |-> Sha256(entidad \o "|CREAR|" \o valor_nuevo \o "|" \o IsoNaive(0)),
     sellado |-> IsoNaive(0), llamada |-> 0, via |-> "app_crm_exo_v2"]

\* That database after one empresa, its contacto, prospecto, oportunidad and
\* orden de compra were entered from the Streamlit forms, which record an event
\* and no hash record.
DBEnUso ==
    [historial_general |->
        <<EventoUI(1, "empresa", "Empresa: x"), EventoUI(2, "contacto", "Contacto: x"),
          EventoUI(3, "prospecto", "Prospecto: x"),
          EventoUI(4, "oportunidad", "Oportunidad: x"),
          EventoUI(5, "orden_compra", "OC x")>>,
     hash_registros |-> <<>>,
     tablas |-> [t \in Tablas |->
                    IF t \in {"empresas", "contactos", "oportunidades", "ordenes_compra"}
                    THEN <<[val |-> "x", ref |-> IF t = "empresas" THEN 0 ELSE 1,
                            vivo |-> TRUE, orig |-> "x", estado |-> "abierta",
                            tipo_cliente |-> "prospecto", id_cliente |-> 0]>>
                    ELSE IF t = "prospectos"
                    THEN <<[val |-> "Activo", ref |-> 1, vivo |-> TRUE, orig |-> "Activo",
                            estado |-> "abierta", tipo_cliente |-> "prospecto",
                            id_cliente |-> 0]>>
                    ELSE <<>>]]

\* INSERT OR REPLACE keyed on (entidad, id_entidad): the statement an
\* append-only ledger must not be written with.
InsertarEventoReemplazando(d, fila) ==
    LET S == {i \in 1..Len(d.historial_general) :
                 /\ d.historial_general[i].entidad = fila.entidad
                 /\ d.historial_general[i].id_entidad = fila.id_entidad}
        i == CHOOSE x \in S : TRUE
    IN  IF S = {}
        THEN [d EXCEPT !.historial_general =
                 Append(@, [fila EXCEPT !.id_evento = Len(d.historial_general) + 1])]
        ELSE [d EXCEPT !.historial_general[i] = [fila EXCEPT !.id_evento = i]]

\* INSERT INTO historial_general: id_evento is the AUTOINCREMENT key.
InsertarEvento(d, fila) ==
    [d EXCEPT !.historial_general =
        Append(@, [fila EXCEPT !.id_evento = Len(d.historial_general) + 1])]

\* The hash record is not written.
InsertarHashOmitido(d, fila) == d

\* INSERT INTO hash_registros: id_hash is the AUTOINCREMENT key.
InsertarHash(d, fila) ==
    [d EXCEPT !.hash_registros =
        Append(@, [fila EXCEPT !.id_hash = Len(d.hash_registros) + 1])]

\* INSERT INTO <tabla>; cur.lastrowid is the length afterwards.  `ref` is the
\* row's foreign key (0 for none), `val` its other columns.  `orig` is a
\* history field: the value the row was inserted with.  `estado` and
\* `id_cliente` (0: NULL) are the columns of oportunidades the conversion
\* writes and `tipo_cliente` the one of empresas, as a prospect's rows have
\* them; they mean nothing in the other tables.
InsertarFila(d, tabla, ref, v) ==
    [d EXCEPT !.tablas[tabla] =
        Append(@, [val |-> v, ref |-> ref, vivo |-> TRUE, orig |-> v,
                   estado |-> "abierta", tipo_cliente |-> "prospecto", id_cliente |-> 0])]

ExisteFila(d, tabla, id) ==
    /\ id \in 1..Len(d.tablas[tabla])
    /\ d.tablas[tabla][id].vivo

\* ------------------------------------------------------------- threads
\* The threads that may be inside AUPRepository.registrar_evento at once.
Hilos == {1, 2}

\* A thread that has not called registrar_evento: `g` is what generar_hash
\* returned, `con` the view of the connection conectar() gave the thread.
HilosInicio ==
    [h \in Hilos |-> [pc |-> "inicio", g |-> [hash |-> NULL, timestamp |-> NULL],
                      valor_nuevo |-> NULL, exc |-> "", con |-> DBVacia]]

\* Cotizacion(id_oportunidad=1, monto_total=Decimal("100.00")) built at time 0:
\* __post_init__ sets fecha_creacion, hash_integridad is None.
CotizacionNueva ==
    [id_oportunidad |-> 1, modo |-> "minimo", fuente |-> "manual", monto_total |-> "100.00",
     moneda |-> "MXN", version |-> 1, estado |-> "Borrador", fecha_creacion |-> 0,
     hash_integridad |-> "None", notas |-> ""]

\* A query thread that has not started: `hash_reg` and `hash_event` are the
\* rows the SELECTs of a cross-check fetched ("None": no row); `registros` are
\* the keys an audit has still to verify and `resultados` its counts so far.
\* `cancelada` and `al_cancelar` are history fields: a cancellation was
\* requested, and the counts at that moment.
LectorInicio ==
    [pc |-> "inicio", hash_reg |-> "None", hash_event |-> "None", registros |-> <<>>,
     resultados |-> [total_verificados |-> 0, integridad_ok |-> 0, integridad_error |-> 0,
                     sin_datos |-> 0, detalles |-> <<>>],
     cancelada |-> FALSE,
     al_cancelar |-> [total_verificados |-> 0, integridad_ok |-> 0, integridad_error |-> 0,
                      sin_datos |-> 0, detalles |-> <<>>]]

\* ------------------------------------------------------------- schedule
Consultas ==
    {"verificar_integridad_cruzada", "auditoria_completa", "verificar_integridad_evento",
     "FacturaRepository.verificar_integridad", "Factura.verificar_integridad",
     "CotizadorRepository.verificar_integridad", "linea_tiempo",
     "obtener_historial_entidad", "generar_cadena_custodia",
     "Cotizacion.verificar_integridad"}

\* A query changes nothing but `ret`, so whatever follows it yields the state it
\* would yield had the query not been made: the outcome of a query is observed
\* in the state the query produces, and the run goes on from the state before.
Observado == ret.op \in Consultas

\* A write operation may start.
Libre == nops < MaxOps /\ ~Observado

\* ------------------------------------------------------- AUPRepository
\* What a storage call of one operation may do.
FallasEvento == {"ninguna", "serializar", "insert_hash"}
FallasCrear == FallasEvento \cup {"insert_dominio"}

\* conectar(): the injected connection, or a fresh one that sees the committed rows.
conectar == IF modo = "inyectada" THEN tx ELSE db

\* The injected connection was closed: every statement raises ProgrammingError.
Cerrada == modo = "inyectada" /\ ~con_abierta

\* A fresh connection cannot write while the shared one holds an open transaction.
Bloqueada == modo = "propia" /\ tx # db

\* cerrar_conexion(con): returns for an injected connection, otherwise calls itself.
cerrar_conexion == IF modo = "inyectada" THEN "" ELSE "RecursionError"

\* generar_hash(accion, valores): the payload holds entidad, accion, valores,
\* usuario and one clock read; id_entidad is not part of it.
generar_hash(entidad, usuario, accion, valores, t) ==
    [hash |-> Sha256("{accion:" \o accion \o ",entidad:" \o entidad \o ",timestamp:"
                     \o IsoUTC(t) \o ",usuario:" \o usuario \o ",valores:"
                     \o JsonDumps(valores) \o "}"),
     timestamp |-> IsoUTC(t)]

\* registrar_evento(con, id_entidad, accion, valor_nuevo, valor_anterior).
\* Result: the connection's view, the exception raised ("" for none) and
\* whether con.commit() was reached and succeeded.
registrar_evento(d, entidad, usuario, id_entidad, accion, valor_nuevo, valor_anterior, t, falla, llamada) ==
    LET g == generar_hash(entidad, usuario, accion, valor_nuevo, t)
        evento == [id_evento |-> 0, entidad |-> entidad, id_entidad |-> id_entidad,
                   accion |-> accion,
                   valor_anterior |-> IF valor_anterior = NULL THEN NULL
                                      ELSE JsonDumps(valor_anterior),
                   valor_nuevo |-> JsonDumps(valor_nuevo), usuario |-> usuario,
                   timestamp |-> g.timestamp, hash_evento |-> g.hash,
                   sellado |-> g.timestamp, llamada |-> llamada, via |-> "AUPRepository"]
        registro == [id_hash |-> 0, tabla_origen |-> entidad, id_registro |-> id_entidad,
                     hash_sha256 |-> g.hash, timestamp |-> CurrentTimestamp(t),
                     llamada |-> llamada, via |-> "AUPRepository"]
        d1 == InsertarEvento(d, evento)
        d2 == InsertarHash(d1, registro)
    IN  CASE falla = "serializar"       -> [d |-> d,  exc |-> "TypeError", confirmado |-> FALSE]
          [] falla = "insert_hash"      -> [d |-> d1, exc |-> "OperationalError", confirmado |-> FALSE]
          [] OTHER                      -> [d |-> d2, exc |-> "", confirmado |-> TRUE]

\* Call ids of an operation: it makes at most two registrar_evento calls.
Llamada(k) == 2 * nops + k

\* An ending that commits whatever the connection holds, also on the paths
\* that raise before any statement of their own.
TerminarConfirmando(op, args, visto, confirmado, exc, val, avance, aup) ==
    /\ db' = visto
    /\ tx' = IF modo = "inyectada" THEN visto ELSE IF tx = db THEN visto ELSE tx
    /\ reloj' = reloj + avance
    /\ nops' = nops + 1
    /\ ret' = [op |-> op, exc |-> exc, val |-> val, args |-> args]
    /\ limpio' = (limpio /\ aup /\ exc = "")
    /\ UNCHANGED <<modo, hilos, lector, cotizacion>>

\* End of an operation that ran on the connection given by conectar: `visto`
\* is that connection's final view, `confirmado` the last committed database.
\* A fresh connection is dropped at the end, which discards its open transaction.
\* `args` keeps the parent id the operation was called with.
TerminarCon(op, args, visto, confirmado, exc, val, avance, aup) ==
    /\ db' = confirmado
    /\ tx' = IF modo = "inyectada" THEN visto
             ELSE IF tx = db THEN confirmado ELSE tx
    /\ reloj' = reloj + avance
    /\ nops' = nops + 1
    /\ ret' = [op |-> op, exc |-> exc, val |-> val, args |-> args]
    /\ limpio' = (limpio /\ aup /\ exc = "")
    /\ UNCHANGED <<modo, hilos, lector, cotizacion>>

Terminar(op, visto, confirmado, exc, val, avance, aup) ==
    TerminarCon(op, <<>>, visto, confirmado, exc, val, avance, aup)

\* An exception raised by the `finally` clause replaces the one in flight.
Finally(exc, cierre) == IF cierre # "" THEN cierre ELSE exc

\* AUPRepository.crear(tabla, data)
crear(entidad, tabla, data, falla) ==
    /\ Libre
    /\ LET c0 == conectar
           c1 == InsertarFila(c0, tabla, 0, data)
           id_entidad == Len(c1.tablas[tabla])
           r == registrar_evento(c1, entidad, "system", id_entidad, "CREAR", data, NULL,
                                 reloj, falla, Llamada(1))
       IN  IF Cerrada
           THEN Terminar("crear", tx, db, "ProgrammingError", 0, 0, TRUE)
           ELSE IF Bloqueada \/ falla = "insert_dominio"
           THEN \* the INSERT raises; except: con.rollback()
                Terminar("crear", db, db, Finally("OperationalError", cerrar_conexion),
                         0, 0, TRUE)
           ELSE IF r.exc # ""
           THEN \* except: con.rollback()
                Terminar("crear", db, db, Finally(r.exc, cerrar_conexion), 0, 0, TRUE)
           ELSE Terminar("crear", r.d, r.d, Finally("", cerrar_conexion),
                         id_entidad, 0, TRUE)
    /\ UNCHANGED con_abierta

\* UPDATE <tabla> SET ... WHERE id = ?: no row matches a missing id.
ActualizarFila(d, tabla, id, v) ==
    IF ExisteFila(d, tabla, id) THEN [d EXCEPT !.tablas[tabla][id].val = v] ELSE d

\* DELETE FROM <tabla> WHERE id = ?; AUTOINCREMENT never reuses the id.
BorrarFila(d, tabla, id) == [d EXCEPT !.tablas[tabla][id].vivo = FALSE]

\* AUPRepository.actualizar(tabla, id_campo, id_entidad, data)
actualizar(entidad, tabla, id_entidad, data, falla) ==
    /\ Libre
    /\ LET c0 == conectar
           anterior == IF ExisteFila(c0, tabla, id_entidad)
                       THEN c0.tablas[tabla][id_entidad].val ELSE NULL
           c1 == ActualizarFila(c0, tabla, id_entidad, data)
           r == registrar_evento(c1, entidad, "system", id_entidad, "ACTUALIZAR", data,
                                 anterior, reloj, falla, Llamada(1))
       IN  IF Cerrada
           THEN Terminar("actualizar", tx, db, "ProgrammingError", FALSE, 0, TRUE)
           ELSE IF Bloqueada
           THEN Terminar("actualizar", db, db, Finally("OperationalError", cerrar_conexion),
                         FALSE, 0, TRUE)
           ELSE IF r.exc # ""
           THEN Terminar("actualizar", db, db, Finally(r.exc, cerrar_conexion),
                         FALSE, 0, TRUE)
           ELSE \* return cur.rowcount > 0
                Terminar("actualizar", r.d, r.d, Finally("", cerrar_conexion),
                         ExisteFila(c0, tabla, id_entidad), 0, TRUE)
    /\ UNCHANGED con_abierta

\* AUPRepository.eliminar(tabla, id_campo, id_entidad)
eliminar(entidad, tabla, id_entidad, falla) ==
    /\ Libre
    /\ LET c0 == conectar
           c1 == BorrarFila(c0, tabla, id_entidad)
           r == registrar_evento(c1, entidad, "system", id_entidad, "ELIMINAR",
                                 "deleted:" \o c0.tablas[tabla][id_entidad].val, NULL,
                                 reloj, falla, Llamada(1))
       IN  IF Cerrada
           THEN Terminar("eliminar", tx, db, "ProgrammingError", FALSE, 0, TRUE)
           ELSE IF ~ExisteFila(c0, tabla, id_entidad)
           THEN \* return False
                Terminar("eliminar", c0, db, Finally("", cerrar_conexion), FALSE, 0, TRUE)
           ELSE IF Bloqueada
           THEN Terminar("eliminar", db, db, Finally("OperationalError", cerrar_conexion),
                         FALSE, 0, TRUE)
           ELSE IF r.exc # ""
           THEN Terminar("eliminar", db, db, Finally(r.exc, cerrar_conexion),
                         FALSE, 0, TRUE)
           ELSE Terminar("eliminar", r.d, r.d, Finally("", cerrar_conexion),
                         TRUE, 0, TRUE)
    /\ UNCHANGED con_abierta

\* ------------------------------------------------------ domain repositories
\* A live row of the table holds the value.
ExisteValor(d, tabla, v) ==
    \E i \in 1..Len(d.tablas[tabla]) : d.tablas[tabla][i].vivo /\ d.tablas[tabla][i].val = v

ValidarPadreOmitido(d, tabla, id) == TRUE

\* "Validar ... existe": SELECT the parent row by its id; `if not row` raises
\* ValueError.
ValidarPadre(d, tabla, id) == ExisteFila(d, tabla, id)

\* EmpresaRepository.crear_empresa(nombre, ...): commits the empresa row, then
\* records the event; the `finally` clause closes the connection it was given.
crear_empresa(nombre, falla, avance) ==
    /\ Libre
    /\ reloj + avance <= MaxReloj
    /\ LET c0 == conectar
           data == "nombre:" \o nombre \o ",fecha_alta:" \o IsoUTC(reloj)
           c1 == InsertarFila(c0, "empresas", 0, nombre)
           id_empresa == Len(c1.tablas["empresas"])
           r == registrar_evento(c1, "empresa", "system", id_empresa, "CREAR", data, NULL,
                                 reloj + avance, falla, Llamada(1))
       IN  IF Cerrada
           THEN Terminar("crear_empresa", db, db, "ProgrammingError", 0, avance, TRUE)
           ELSE IF ExisteValor(c0, "empresas", nombre)
           THEN Terminar("crear_empresa", db, db, "ValueError", 0, avance, TRUE)
           ELSE IF Bloqueada \/ falla = "insert_dominio"
           THEN Terminar("crear_empresa", db, db, "OperationalError", 0, avance, TRUE)
           ELSE IF r.exc # ""
           THEN \* con.commit() at line 132 stands; except: con.rollback()
                Terminar("crear_empresa", c1, c1, r.exc, 0, avance, TRUE)
           ELSE Terminar("crear_empresa", r.d, r.d, "", id_empresa, avance, TRUE)
    /\ con_abierta' = (con_abierta /\ modo # "inyectada")

\* ContactoRepository.crear_contacto(id_empresa, nombre, ...)
crear_contacto(id_empresa, nombre, falla, avance) ==
    /\ Libre
    /\ reloj + avance <= MaxReloj
    /\ LET c0 == conectar
           data == "id_empresa:" \o Str(id_empresa) \o ",nombre:" \o nombre
                   \o ",fecha_alta:" \o IsoUTC(reloj)
           c1 == InsertarFila(c0, "contactos", id_empresa, nombre)
           id_contacto == Len(c1.tablas["contactos"])
           r == registrar_evento(c1, "contacto", "system", id_contacto, "CREAR",
                                 data \o ",empresa_nombre:"
                                      \o c0.tablas["empresas"][id_empresa].val,
                                 NULL, reloj + avance, falla, Llamada(1))
       IN  IF Cerrada
           THEN Terminar("crear_contacto", tx, db, "ProgrammingError", 0, avance, TRUE)
           ELSE IF ~ExisteFila(c0, "empresas", id_empresa)
           THEN Terminar("crear_contacto", db, db, Finally("ValueError", cerrar_conexion),
                         0, avance, TRUE)
           ELSE IF Bloqueada \/ falla = "insert_dominio"
           THEN Terminar("crear_contacto", db, db,
                         Finally("OperationalError", cerrar_conexion), 0, avance, TRUE)
           ELSE IF r.exc # ""
           THEN \* con.commit() at line 106 stands; except: con.rollback()
                Terminar("crear_contacto", c1, c1, Finally(r.exc, cerrar_conexion),
                         0, avance, TRUE)
           ELSE Terminar("crear_contacto", r.d, r.d, Finally("", cerrar_conexion),
                         id_contacto, avance, TRUE)
    /\ UNCHANGED con_abierta

\* Amounts a caller may pass: an int, and a float without decimals.
Montos == {"100", "100.0"}

\* A REAL column gives a float back.
ColumnaReal(m) == IF m = "100" THEN "100.0" ELSE m

\* Lines 356-358 of verificar_integridad: a float equal to its integer part is
\* hashed as that int.
MontoEntero(m) == IF m = "100.0" THEN "100" ELSE m

\* The dictionary crear_cotizacion and verificar_integridad hash (modo and
\* fuente are left at one value).
DatosCotizacion(id_oportunidad, monto_total, estado, fecha_emision) ==
    "id_oportunidad:" \o Str(id_oportunidad) \o ",monto_total:" \o monto_total
    \o ",estado:" \o estado \o ",fecha_emision:" \o fecha_emision

\* INSERT INTO cotizaciones (id_oportunidad, modo, fuente, monto_total, estado,
\* fecha_emision, hash_cotizacion): the table is taken to have every column the
\* repository's statements name.
InsertarCotizacion(d, id_oportunidad, monto_total, fecha_emision, hash_cotizacion) ==
    [d EXCEPT !.tablas["cotizaciones"] =
        Append(@, [val |-> monto_total, ref |-> id_oportunidad, vivo |-> TRUE,
                   orig |-> monto_total, estado |-> "borrador",
                   fecha_emision |-> fecha_emision, hash_cotizacion |-> hash_cotizacion,
                   hash_integridad |-> NULL])]

\* CotizadorRepository.crear_cotizacion(id_oportunidad, monto_total, ...), called
\* with a valid modo and a positive monto_total.  No try/except: an exception
\* leaves the connection as it is.
crear_cotizacion(id_oportunidad, monto_total, falla, avance) ==
    /\ Libre
    /\ reloj + avance <= MaxReloj
    /\ LET c0 == conectar
           data == DatosCotizacion(id_oportunidad, monto_total, "borrador", IsoUTC(reloj))
           hash_integridad == Sha256(JsonDumps(data))
           c1 == InsertarCotizacion(c0, id_oportunidad, monto_total, IsoUTC(reloj),
                                    hash_integridad)
           id_cot == Len(c1.tablas["cotizaciones"])
           r == registrar_evento(c1, "cotizacion", "system", id_cot, "CREAR",
                                 data \o ",hash_cotizacion:" \o hash_integridad, NULL,
                                 reloj + avance, falla, Llamada(1))
       IN  IF Cerrada
           THEN TerminarCon("crear_cotizacion", <<id_oportunidad>>,
                            tx, db, "ProgrammingError", 0, avance, TRUE)
           ELSE IF ~ValidarPadre(c0, "oportunidades", id_oportunidad)
           THEN TerminarCon("crear_cotizacion", <<id_oportunidad>>,
                            c0, db, Finally("ValueError", cerrar_conexion),
                         0, avance, TRUE)
           ELSE IF Bloqueada \/ falla = "insert_dominio"
           THEN TerminarCon("crear_cotizacion", <<id_oportunidad>>,
                            c0, db, "OperationalError", 0, avance, TRUE)
           ELSE IF r.exc # ""
           THEN \* con.commit() at line 141 stands; nothing rolls back
                TerminarCon("crear_cotizacion", <<id_oportunidad>>,
                            r.d, c1, r.exc, 0, avance, TRUE)
           ELSE TerminarCon("crear_cotizacion", <<id_oportunidad>>,
                            r.d, r.d, Finally("", cerrar_conexion),
                         <<id_cot, hash_integridad>>, avance, TRUE)
    /\ UNCHANGED con_abierta

\* A live oportunidad of the prospecto has the title.
ExisteTitulo(d, id_prospecto, titulo) ==
    \E i \in 1..Len(d.tablas["oportunidades"]) :
        /\ d.tablas["oportunidades"][i].vivo
        /\ d.tablas["oportunidades"][i].ref = id_prospecto
        /\ d.tablas["oportunidades"][i].val = titulo

\* OportunidadRepository.crear_oportunidad(id_prospecto, titulo, monto).  No
\* try/except: an exception leaves the connection as it is.
crear_oportunidad(id_prospecto, titulo, falla, avance) ==
    /\ Libre
    /\ reloj + avance <= MaxReloj
    /\ LET c0 == conectar
           data == "id_prospecto:" \o Str(id_prospecto) \o ",titulo:" \o titulo
                   \o ",fecha_creacion:" \o IsoUTC(reloj)
           c1 == InsertarFila(c0, "oportunidades", id_prospecto, titulo)
           id_opp == Len(c1.tablas["oportunidades"])
           r == registrar_evento(c1, "oportunidad", "system", id_opp, "CREAR", data, NULL,
                                 reloj + avance, falla, Llamada(1))
       IN  IF Cerrada
           THEN TerminarCon("crear_oportunidad", <<id_prospecto>>,
                            tx, db, "ProgrammingError", 0, avance, TRUE)
           ELSE IF \/ ~ValidarPadre(c0, "prospectos", id_prospecto)
                   \/ /\ ExisteFila(c0, "prospectos", id_prospecto)
                      /\ c0.tablas["prospectos"][id_prospecto].val
                             \in {"convertido", "perdido"}
                   \/ ExisteTitulo(c0, id_prospecto, titulo)
           THEN TerminarCon("crear_oportunidad", <<id_prospecto>>,
                            c0, db, Finally("ValueError", cerrar_conexion),
                         0, avance, TRUE)
           ELSE IF Bloqueada \/ falla = "insert_dominio"
           THEN TerminarCon("crear_oportunidad", <<id_prospecto>>,
                            c0, db, "OperationalError", 0, avance, TRUE)
           ELSE IF r.exc # ""
           THEN \* con.commit() at line 142 stands; nothing rolls back
                TerminarCon("crear_oportunidad", <<id_prospecto>>,
                            r.d, c1, r.exc, 0, avance, TRUE)
           ELSE TerminarCon("crear_oportunidad", <<id_prospecto>>,
                            r.d, r.d, Finally("", cerrar_conexion),
                         id_opp, avance, TRUE)
    /\ UNCHANGED con_abierta

\* OportunidadRepository.actualizar_oportunidad(id_oportunidad, etapa=etapa): the
\* row's other columns stay.
actualizar_oportunidad(id_oportunidad, etapa, falla) ==
    /\ Libre
    /\ LET c0 == conectar
           r == registrar_evento(c0, "oportunidad", "system", id_oportunidad, "ACTUALIZAR",
                                 "etapa:" \o etapa, NULL, reloj, falla, Llamada(1))
       IN  IF Cerrada
           THEN Terminar("actualizar_oportunidad", tx, db, "ProgrammingError", 0, 0, TRUE)
           ELSE IF ~ExisteFila(c0, "oportunidades", id_oportunidad)
           THEN Terminar("actualizar_oportunidad", c0, db,
                         Finally("ValueError", cerrar_conexion), 0, 0, TRUE)
           ELSE IF Bloqueada \/ falla = "insert_dominio"
           THEN Terminar("actualizar_oportunidad", c0, db, "OperationalError", 0, 0, TRUE)
           ELSE IF r.exc # ""
           THEN \* con.commit() at line 198 stands; nothing rolls back
                Terminar("actualizar_oportunidad", r.d, c0, r.exc, 0, 0, TRUE)
           ELSE Terminar("actualizar_oportunidad", r.d, r.d, Finally("", cerrar_conexion),
                         0, 0, TRUE)
    /\ UNCHANGED con_abierta

\* CotizadorRepository.actualizar_cotizacion(id_cotizacion, {campo: valor}) for
\* one of the fields that make it recalculate the digest: the new digest goes
\* to the column hash_integridad.  Result: the connection's view, the last
\* committed database and the exception raised.
actualizar_cotizacion(id_cotizacion, campo, valor, falla) ==
    LET c0 == conectar
        cot == c0.tablas["cotizaciones"][id_cotizacion]
        merged == IF campo = "monto_total" THEN [cot EXCEPT !.val = valor]
                  ELSE [cot EXCEPT !.estado = valor]
        raw == JsonDumps("id_cotizacion:" \o Str(id_cotizacion) \o ","
                         \o DatosCotizacion(merged.ref, merged.val, merged.estado,
                                            merged.fecha_emision)
                         \o ",hash_cotizacion:" \o merged.hash_cotizacion
                         \o ",hash_integridad:" \o merged.hash_integridad)
        c1 == [c0 EXCEPT !.tablas["cotizaciones"][id_cotizacion] =
                  [merged EXCEPT !.hash_integridad = Sha256(raw)]]
        r == registrar_evento(c1, "cotizacion", "system", id_cotizacion, "ACTUALIZAR",
                              campo \o ":" \o valor \o ",hash_integridad:" \o Sha256(raw),
                              NULL, reloj, falla, Llamada(1))
    IN  IF Cerrada
        THEN [visto |-> tx, confirmado |-> db, exc |-> "ProgrammingError"]
        ELSE IF ~ExisteFila(c0, "cotizaciones", id_cotizacion)
        THEN [visto |-> c0, confirmado |-> db, exc |-> Finally("ValueError", cerrar_conexion)]
        ELSE IF Bloqueada \/ falla = "insert_dominio"
        THEN [visto |-> c0, confirmado |-> db, exc |-> "OperationalError"]
        ELSE IF r.exc # ""
        THEN \* con.commit() at line 192 stands; nothing rolls back
             [visto |-> r.d, confirmado |-> c1, exc |-> r.exc]
        ELSE [visto |-> r.d, confirmado |-> r.d, exc |-> Finally("", cerrar_conexion)]

\* CotizadorRepository.aprobar_cotizacion(id_cotizacion): the checks, then
\* actualizar_cotizacion(id_cotizacion, {"estado": "Aprobada"}).
aprobar_cotizacion(id_cotizacion, falla) ==
    LET c0 == conectar
    IN  IF Cerrada
        THEN [visto |-> tx, confirmado |-> db, exc |-> "ProgrammingError"]
        ELSE IF ~ExisteFila(c0, "cotizaciones", id_cotizacion)
        THEN [visto |-> c0, confirmado |-> db, exc |-> Finally("ValueError", cerrar_conexion)]
        ELSE IF c0.tablas["cotizaciones"][id_cotizacion].estado = "Aprobada"
        THEN [visto |-> c0, confirmado |-> db, exc |-> Finally("ValueError", cerrar_conexion)]
        ELSE actualizar_cotizacion(id_cotizacion, "estado", "Aprobada", falla)

\* repository_facturacion.py OrdenCompraRepository.crear_oc(id_oportunidad,
\* numero_oc, monto_oc), called with an unused numero_oc and a positive monto_oc.
\* No try/except: an exception leaves the connection as it is.
crear_oc(id_oportunidad, monto_oc, falla, avance) ==
    /\ Libre
    /\ reloj + avance <= MaxReloj
    /\ LET c0 == conectar
           data == "id_oportunidad:" \o Str(id_oportunidad) \o ",monto_oc:" \o monto_oc
                   \o ",fecha_oc:" \o IsoNaive(reloj)
           hash_integridad == Sha256(JsonDumps(data))
           c1 == InsertarFila(c0, "ordenes_compra", id_oportunidad, monto_oc)
           id_oc == Len(c1.tablas["ordenes_compra"])
           r == registrar_evento(c1, "orden_compra", "system", id_oc, "CREAR_OC",
                                 data \o ",hash_integridad:" \o hash_integridad, NULL,
                                 reloj + avance, falla, Llamada(1))
       IN  IF Cerrada
           THEN Terminar("crear_oc", tx, db, "ProgrammingError", 0, avance, TRUE)
           ELSE IF ~ExisteFila(c0, "oportunidades", id_oportunidad)
           THEN Terminar("crear_oc", c0, db, Finally("ValueError", cerrar_conexion),
                         0, avance, TRUE)
           ELSE IF Bloqueada \/ falla = "insert_dominio"
           THEN Terminar("crear_oc", c0, db, "OperationalError", 0, avance, TRUE)
           ELSE IF r.exc # ""
           THEN \* con.commit() at line 125 stands; nothing rolls back
                Terminar("crear_oc", r.d, c1, r.exc, 0, avance, TRUE)
           ELSE Terminar("crear_oc", r.d, r.d, Finally("", cerrar_conexion),
                         <<id_oc, hash_integridad>>, avance, TRUE)
    /\ UNCHANGED con_abierta

\* repository_facturacion.py FacturaRepository.crear_factura(id_oc, uuid, ...),
\* called with a positive monto_total.  No try/except.
crear_factura(id_oc, uuid, falla) ==
    /\ Libre
    /\ LET c0 == conectar
           data == "id_oc:" \o Str(id_oc) \o ",uuid:" \o uuid \o ",monto_total:100.0"
           hash_integridad == Sha256(JsonDumps(data))
           c1 == InsertarFila(c0, "facturas", id_oc, uuid)
           id_factura == Len(c1.tablas["facturas"])
           r == registrar_evento(c1, "factura", "system", id_factura, "CREAR_FACTURA",
                                 data \o ",hash_integridad:" \o hash_integridad, NULL,
                                 reloj, falla, Llamada(1))
       IN  IF Cerrada
           THEN TerminarCon("crear_factura", <<id_oc>>, tx, db, "ProgrammingError", 0, 0, TRUE)
           ELSE IF ~ValidarPadre(c0, "ordenes_compra", id_oc) \/ ExisteValor(c0, "facturas", uuid)
           THEN TerminarCon("crear_factura", <<id_oc>>,
                            c0, db, Finally("ValueError", cerrar_conexion),
                         0, 0, TRUE)
           ELSE IF Bloqueada \/ falla = "insert_dominio"
           THEN TerminarCon("crear_factura", <<id_oc>>, c0, db, "OperationalError", 0, 0, TRUE)
           ELSE IF r.exc # ""
           THEN \* con.commit() at line 363 stands; nothing rolls back
                TerminarCon("crear_factura", <<id_oc>>, r.d, c1, r.exc, 0, 0, TRUE)
           ELSE TerminarCon("crear_factura", <<id_oc>>, r.d, r.d, Finally("", cerrar_conexion),
                         <<id_factura, hash_integridad>>, 0, TRUE)
    /\ UNCHANGED con_abierta

\* ------------------------------------------- writers outside AUPRepository
\* End of an operation that ran on the shared connection.
TerminarTx(op, visto, confirmado, exc, val, avance) ==
    /\ db' = confirmado
    /\ tx' = visto
    /\ reloj' = reloj + avance
    /\ nops' = nops + 1
    /\ ret' = [op |-> op, exc |-> exc, val |-> val, args |-> <<>>]
    /\ limpio' = FALSE
    /\ UNCHANGED <<modo, con_abierta, hilos, lector, cotizacion>>

\* End of an operation that ran on a connection of its own (the Streamlit forms).
TerminarPropia(op, confirmado, exc, val, avance) ==
    /\ db' = confirmado
    /\ tx' = IF tx = db THEN confirmado ELSE tx
    /\ reloj' = reloj + avance
    /\ nops' = nops + 1
    /\ ret' = [op |-> op, exc |-> exc, val |-> val, args |-> <<>>]
    /\ limpio' = FALSE
    /\ UNCHANGED <<modo, con_abierta, hilos, lector, cotizacion>>

FallasForense == {"ninguna", "insert_historial", "insert_hash"}
FallasSoloEvento == {"ninguna", "insert_historial"}

\* AtributosRepository._calcular_hash_evento: reads the clock itself.
calcular_hash_evento(entidad, accion, nombre_attr, valor_attr, id_entidad, t) ==
    Sha256("{accion:" \o accion \o ",entidad:" \o entidad \o ",id_entidad:" \o Str(id_entidad)
           \o ",nombre_attr:" \o nombre_attr \o ",timestamp:" \o IsoNaive(t)
           \o ",valor_attr:" \o valor_attr \o "}")

\* AtributosRepository._registrar_evento_forense(entidad, id_attr, accion, nombre_attr,
\* valor_attr): `t1` is the clock read of line 92, `t2` the one inside
\* _calcular_hash_evento.
registrar_evento_forense(d, entidad, id_attr, accion, nombre_attr, valor_attr, t1, t2, falla, llamada) ==
    LET hash_evt == calcular_hash_evento(entidad, accion, nombre_attr, valor_attr, id_attr, t2)
        evento == [id_evento |-> 0, entidad |-> entidad \o "_attr", id_entidad |-> id_attr,
                   accion |-> accion, valor_anterior |-> NULL,
                   valor_nuevo |-> nombre_attr \o "=" \o valor_attr, usuario |-> "system",
                   timestamp |-> IsoNaive(t1), hash_evento |-> hash_evt,
                   sellado |-> IsoNaive(t2), llamada |-> llamada,
                   via |-> "AtributosRepository"]
        registro == [id_hash |-> 0, tabla_origen |-> "atributos_entidad",
                     id_registro |-> id_attr, hash_sha256 |-> hash_evt,
                     timestamp |-> CurrentTimestamp(t2),
                     llamada |-> llamada, via |-> "AtributosRepository"]
        d1 == InsertarEvento(d, evento)
        d2 == InsertarHash(d1, registro)
    IN  CASE falla = "insert_historial" -> [d |-> d,  exc |-> "OperationalError", confirmado |-> FALSE]
          [] falla = "insert_hash"      -> [d |-> d1, exc |-> "OperationalError", confirmado |-> FALSE]
          [] OTHER                      -> [d |-> d2, exc |-> "", confirmado |-> TRUE]

\* Row of atributos_entidad for (entidad, id_entidad, nombre_attr), 0 if none.
BuscarAtributo(d, id_entidad) ==
    LET t == d.tablas["atributos_entidad"]
        S == {i \in 1..Len(t) : t[i].vivo /\ t[i].ref = id_entidad}
    IN  IF S = {} THEN 0 ELSE CHOOSE i \in S : TRUE

\* AtributosRepository.agregar_atributo("empresa", id_entidad, "giro", valor_attr)
agregar_atributo(id_entidad, valor_attr, falla, avance) ==
    /\ Libre
    /\ reloj + avance <= MaxReloj
    /\ LET existe == BuscarAtributo(tx, id_entidad)
           c1 == IF existe # 0
                 THEN ActualizarFila(tx, "atributos_entidad", existe, valor_attr)
                 ELSE InsertarFila(tx, "atributos_entidad", id_entidad, valor_attr)
           id_attr == IF existe # 0 THEN existe ELSE Len(c1.tablas["atributos_entidad"])
           r == registrar_evento_forense(c1, "empresa", id_attr,
                                         IF existe # 0 THEN "ATTR_UPDATE" ELSE "ATTR_CREATE",
                                         "giro", valor_attr, reloj, reloj + avance,
                                         falla, Llamada(1))
       IN  IF ~con_abierta
           THEN TerminarTx("agregar_atributo", tx, db, "ProgrammingError", 0, avance)
           ELSE IF r.exc # ""
           THEN \* self.db.commit() after the attribute statement stands
                TerminarTx("agregar_atributo", r.d, c1, r.exc, 0, avance)
           ELSE TerminarTx("agregar_atributo", r.d, r.d, "", id_attr, avance)

\* Factura.generar_hash_forense()
generar_hash_forense(uuid, monto_total) ==
    Sha256("{fecha_emision:F,moneda:MXN,monto_total:" \o monto_total
           \o ",uuid:" \o uuid \o "}")

\* facturacion/orden_compra.py OrdenCompraRepository.crear(oc): the event row
\* leaves timestamp and hash_evento to the column defaults.
OrdenCompra_crear(id_oportunidad, monto_oc, falla) ==
    /\ Libre
    /\ LET c1 == InsertarFila(tx, "ordenes_compra", id_oportunidad, monto_oc)
           oc_id == Len(c1.tablas["ordenes_compra"])
           evento == [id_evento |-> 0, entidad |-> "orden_compra", id_entidad |-> oc_id,
                      accion |-> "crear", valor_anterior |-> NULL,
                      valor_nuevo |-> "OC #" \o monto_oc, usuario |-> "sistema",
                      timestamp |-> CurrentTimestamp(reloj), hash_evento |-> NULL,
                      sellado |-> NULL, llamada |-> Llamada(1),
                      via |-> "OrdenCompraRepository"]
           c2 == InsertarEvento(c1, evento)
       IN  IF ~con_abierta
           THEN TerminarTx("OrdenCompra.crear", tx, db, "ProgrammingError", 0, 0)
           ELSE IF ~ExisteFila(tx, "oportunidades", id_oportunidad)
           THEN TerminarTx("OrdenCompra.crear", tx, db, "ValueError", 0, 0)
           ELSE IF falla = "insert_historial"
           THEN TerminarTx("OrdenCompra.crear", c1, db, "OperationalError", 0, 0)
           ELSE TerminarTx("OrdenCompra.crear", c2, c2, "", oc_id, 0)

\* facturacion/orden_compra.py OrdenCompraRepository.actualizar(oc) with a valid
\* oc: the UPDATE matches the row of oc.id if there is one, and the event row
\* leaves timestamp and hash_evento to the column defaults.
OrdenCompra_actualizar(oc_id, monto_oc, falla) ==
    /\ Libre
    /\ LET c1 == ActualizarFila(tx, "ordenes_compra", oc_id, monto_oc)
           evento == [id_evento |-> 0, entidad |-> "orden_compra", id_entidad |-> oc_id,
                      accion |-> "actualizar", valor_anterior |-> NULL,
                      valor_nuevo |-> "OC #" \o monto_oc \o " actualizada",
                      usuario |-> "sistema",
                      timestamp |-> CurrentTimestamp(reloj), hash_evento |-> NULL,
                      sellado |-> NULL, llamada |-> Llamada(1),
                      via |-> "OrdenCompraRepository"]
           c2 == InsertarEvento(c1, evento)
       IN  IF ~con_abierta
           THEN TerminarTx("OrdenCompra.actualizar", tx, db, "ProgrammingError", FALSE, 0)
           ELSE IF falla = "insert_historial"
           THEN TerminarTx("OrdenCompra.actualizar", c1, db, "OperationalError", FALSE, 0)
           ELSE TerminarTx("OrdenCompra.actualizar", c2, c2, "", TRUE, 0)

\* facturacion/factura.py FacturaRepository.crear(factura): the hash record goes
\* under "facturas", the event under "factura" with the column defaults.
Factura_crear(id_oc, uuid, falla) ==
    /\ Libre
    /\ LET hash_forense == generar_hash_forense(uuid, "100.0")
           c1 == InsertarFila(tx, "facturas", id_oc, uuid)
           factura_id == Len(c1.tablas["facturas"])
           registro == [id_hash |-> 0, tabla_origen |-> "facturas",
                        id_registro |-> factura_id, hash_sha256 |-> hash_forense,
                        timestamp |-> CurrentTimestamp(reloj),
                        llamada |-> Llamada(1), via |-> "FacturaRepository"]
           evento == [id_evento |-> 0, entidad |-> "factura", id_entidad |-> factura_id,
                      accion |-> "crear", valor_anterior |-> NULL,
                      valor_nuevo |-> "Factura UUID:" \o uuid, usuario |-> "sistema",
                      timestamp |-> CurrentTimestamp(reloj), hash_evento |-> NULL,
                      sellado |-> NULL, llamada |-> Llamada(1), via |-> "FacturaRepository"]
           c2 == InsertarHash(c1, registro)
           c3 == InsertarEvento(c2, evento)
       IN  IF ~con_abierta
           THEN TerminarTx("Factura.crear", tx, db, "ProgrammingError", 0, 0)
           ELSE IF ~ExisteFila(tx, "ordenes_compra", id_oc)
           THEN TerminarTx("Factura.crear", tx, db, "ValueError", 0, 0)
           ELSE IF falla = "insert_hash"
           THEN TerminarTx("Factura.crear", c1, db, "OperationalError", 0, 0)
           ELSE IF falla = "insert_historial"
           THEN TerminarTx("Factura.crear", c2, db, "OperationalError", 0, 0)
           ELSE TerminarTx("Factura.crear", c3, c3, "", factura_id, 0)

\* EventoHistorial.generar_hash(): the timestamp goes through isoformat().
EventoHistorial_generar_hash(entidad, id_entidad, accion, valor_anterior, valor_nuevo, usuario, timestamp) ==
    Sha256("{accion:" \o accion \o ",entidad:" \o entidad \o ",id_entidad:" \o Str(id_entidad)
           \o ",timestamp:" \o timestamp \o ",usuario:" \o usuario
           \o ",valor_anterior:" \o valor_anterior \o ",valor_nuevo:" \o valor_nuevo \o "}")

\* HistorialRepository.registrar_evento(entidad, id_entidad, accion, "", valor_nuevo)
Historial_registrar_evento(entidad, id_entidad, accion, valor_nuevo, falla) ==
    /\ Libre
    /\ LET evento == [id_evento |-> 0, entidad |-> entidad, id_entidad |-> id_entidad,
                      accion |-> accion, valor_anterior |-> "", valor_nuevo |-> valor_nuevo,
                      usuario |-> "sistema", timestamp |-> IsoNaive(reloj),
                      hash_evento |->
                          EventoHistorial_generar_hash(entidad, id_entidad, accion, "",
                                                       valor_nuevo, "sistema", IsoNaive(reloj)),
                      sellado |-> IsoNaive(reloj), llamada |-> Llamada(1),
                      via |-> "HistorialRepository"]
           c1 == InsertarEvento(tx, evento)
       IN  IF ~con_abierta
           THEN TerminarTx("Historial.registrar_evento", tx, db, "ProgrammingError", 0, 0)
           ELSE IF falla = "insert_historial"
           THEN TerminarTx("Historial.registrar_evento", tx, db, "OperationalError", 0, 0)
           ELSE TerminarTx("Historial.registrar_evento", c1, c1, "",
                           Len(c1.historial_general), 0)

\* ui/identidad.py hash_evento(entidad, accion, valores): reads the clock itself.
hash_evento(entidad, accion, valores, t) ==
    Sha256(entidad \o "|" \o accion \o "|" \o valores \o "|" \o IsoNaive(t))

\* ui/identidad.py registrar_evento(con, entidad, id_entidad, accion, valor_nuevo),
\* on the connection the form opened for itself.
UI_registrar_evento(entidad, id_entidad, accion, valor_nuevo, falla, avance) ==
    /\ Libre
    /\ reloj + avance <= MaxReloj
    /\ LET h == hash_evento(entidad, accion, valor_nuevo, reloj + avance)
           evento == [id_evento |-> 0, entidad |-> entidad, id_entidad |-> id_entidad,
                      accion |-> accion, valor_anterior |-> NULL, valor_nuevo |-> valor_nuevo,
                      usuario |-> "ui", timestamp |-> IsoNaive(reloj), hash_evento |-> h,
                      sellado |-> IsoNaive(reloj + avance), llamada |-> Llamada(1),
                      via |-> "ui.identidad"]
           c1 == InsertarEvento(db, evento)
       IN  IF tx # db \/ falla = "insert_historial"
           THEN TerminarPropia("ui.registrar_evento", db, "OperationalError", NULL, avance)
           ELSE TerminarPropia("ui.registrar_evento", c1, "", h, avance)

\* ------------------------------------------------------------- verifiers
Max(S) == CHOOSE x \in S : \A y \in S : y <= x

\* SELECT hash_sha256 FROM hash_registros WHERE tabla_origen = ? AND id_registro = ?
\* ORDER BY id_hash DESC LIMIT 1  (0: fetchone() is None)
UltimoHash(d, tabla_origen, id_registro) ==
    LET S == {i \in 1..Len(d.hash_registros) :
                 /\ d.hash_registros[i].tabla_origen = tabla_origen
                 /\ d.hash_registros[i].id_registro = id_registro}
    IN  IF S = {} THEN 0 ELSE Max(S)

\* SELECT hash_evento FROM historial_general WHERE entidad = ? AND id_entidad = ?
\* ORDER BY id_evento DESC LIMIT 1  (0: fetchone() is None)
UltimoEvento(d, entidad, id_entidad) ==
    LET S == {i \in 1..Len(d.historial_general) :
                 /\ d.historial_general[i].entidad = entidad
                 /\ d.historial_general[i].id_entidad = id_entidad}
    IN  IF S = {} THEN 0 ELSE Max(S)

SinVeredicto ==
    [resultado |-> "None", integridad_ok |-> "None", tabla_origen |-> "None",
     id_registro |-> 0, hash_completo_registro |-> "None", hash_completo_evento |-> "None"]

\* Lines 396-413 of verificar_integridad_cruzada: the verdict from the two rows
\* fetched.  Slicing a NULL digest raises TypeError.
Veredicto(d, tabla_origen, id_registro) ==
    LET ih == UltimoHash(d, tabla_origen, id_registro)
        ie == UltimoEvento(d, tabla_origen, id_registro)
        hash_reg == d.hash_registros[ih].hash_sha256
        hash_event == d.historial_general[ie].hash_evento
    IN  IF ih = 0 \/ ie = 0
        THEN [exc |-> "", val |-> [SinVeredicto EXCEPT !.resultado = "sin_datos"]]
        ELSE IF hash_reg = NULL \/ hash_event = NULL
        THEN [exc |-> "TypeError", val |-> SinVeredicto]
        ELSE [exc |-> "",
              val |-> [resultado |-> "None",
                       integridad_ok |-> IF hash_reg = hash_event THEN "True" ELSE "False",
                       tabla_origen |-> tabla_origen, id_registro |-> id_registro,
                       hash_completo_registro |-> hash_reg,
                       hash_completo_evento |-> hash_event]]

\* HashRepository.verificar_integridad_cruzada(tabla_origen, id_registro):
\* conectar, the two SELECTs, cerrar_conexion, then the verdict.
verificar_integridad_cruzada(tabla_origen, id_registro) ==
    IF Cerrada THEN [exc |-> "ProgrammingError", val |-> SinVeredicto]
    ELSE IF cerrar_conexion # "" THEN [exc |-> cerrar_conexion, val |-> SinVeredicto]
    ELSE Veredicto(conectar, tabla_origen, id_registro)

\* SELECT DISTINCT tabla_origen, id_registro FROM hash_registros, in the order
\* of first appearance.
RECURSIVE Distintos(_, _)
Distintos(filas, vistos) ==
    IF filas = <<>> THEN <<>>
    ELSE LET k == <<Head(filas).tabla_origen, Head(filas).id_registro>>
         IN  IF k \in vistos THEN Distintos(Tail(filas), vistos)
             ELSE <<k>> \o Distintos(Tail(filas), vistos \cup {k})

ResultadosVacios ==
    [total_verificados |-> 0, integridad_ok |-> 0, integridad_error |-> 0,
     sin_datos |-> 0, detalles |-> <<>>]

\* The loop with the detail appended outside the mismatch branch: every key
\* that is not ok lands in detalles.
RECURSIVE AuditarDetallandoTodo(_, _)
AuditarDetallandoTodo(registros, resultados) ==
    IF registros = <<>> THEN [exc |-> "", val |-> resultados]
    ELSE LET resultado == verificar_integridad_cruzada(Head(registros)[1], Head(registros)[2])
             r1 == [resultados EXCEPT !.total_verificados = @ + 1]
         IN  IF resultado.exc # "" THEN [exc |-> resultado.exc, val |-> resultados]
             ELSE IF resultado.val.resultado = "sin_datos"
             THEN AuditarDetallandoTodo(Tail(registros),
                      [r1 EXCEPT !.sin_datos = @ + 1,
                                 !.detalles = Append(@, [resultado.val EXCEPT
                                     !.tabla_origen = Head(registros)[1],
                                     !.id_registro = Head(registros)[2]])])
             ELSE IF resultado.val.integridad_ok = "True"
             THEN AuditarDetallandoTodo(Tail(registros), [r1 EXCEPT !.integridad_ok = @ + 1])
             ELSE AuditarDetallandoTodo(Tail(registros),
                      [r1 EXCEPT !.integridad_error = @ + 1,
                                 !.detalles = Append(@, resultado.val)])

\* The loop of auditoria_completa (lines 444-458); an exception of one
\* verification leaves the loop.
RECURSIVE Auditar(_, _)
Auditar(registros, resultados) ==
    IF registros = <<>> THEN [exc |-> "", val |-> resultados]
    ELSE LET resultado == verificar_integridad_cruzada(Head(registros)[1], Head(registros)[2])
             r1 == [resultados EXCEPT !.total_verificados = @ + 1]
         IN  IF resultado.exc # "" THEN [exc |-> resultado.exc, val |-> resultados]
             ELSE IF resultado.val.resultado = "sin_datos"
             THEN Auditar(Tail(registros), [r1 EXCEPT !.sin_datos = @ + 1])
             ELSE IF resultado.val.integridad_ok = "True"
             THEN Auditar(Tail(registros), [r1 EXCEPT !.integridad_ok = @ + 1])
             ELSE Auditar(Tail(registros),
                          [r1 EXCEPT !.integridad_error = @ + 1,
                                     !.detalles = Append(@, resultado.val)])

\* HashRepository.auditoria_completa()
auditoria_completa ==
    IF Cerrada THEN [exc |-> "ProgrammingError", val |-> ResultadosVacios]
    ELSE IF cerrar_conexion # "" THEN [exc |-> cerrar_conexion, val |-> ResultadosVacios]
    ELSE Auditar(Distintos(conectar.hash_registros, {}), ResultadosVacios)

\* datetime.fromisoformat(ts).isoformat(): the CURRENT_TIMESTAMP form comes back
\* with the "T" separator.
Reformatear(ts) ==
    IF \E t \in 0..MaxReloj : ts = CurrentTimestamp(t)
    THEN IsoNaive(CHOOSE t \in 0..MaxReloj : ts = CurrentTimestamp(t))
    ELSE ts

\* `x or ""` on a column value
OVacio(x) == IF x = NULL THEN "" ELSE x

\* HistorialRepository.verificar_integridad_evento(evento_id), on the shared connection
verificar_integridad_evento(evento_id) ==
    IF ~con_abierta THEN [exc |-> "ProgrammingError", val |-> FALSE]
    ELSE IF evento_id \notin 1..Len(tx.historial_general) THEN [exc |-> "", val |-> FALSE]
    ELSE LET row == tx.historial_general[evento_id]
             hash_calculado ==
                 EventoHistorial_generar_hash(row.entidad, row.id_entidad, row.accion,
                                              OVacio(row.valor_anterior),
                                              OVacio(row.valor_nuevo), row.usuario,
                                              Reformatear(row.timestamp))
         IN  [exc |-> "", val |-> (hash_calculado = row.hash_evento)]

\* CotizadorRepository.verificar_integridad(id_cotizacion): the digest of the
\* row as it is now against the column hash_cotizacion.
Cotizador_verificar_integridad(id_cotizacion) ==
    LET c0 == conectar
        cot == c0.tablas["cotizaciones"][id_cotizacion]
        monto == MontoEntero(ColumnaReal(cot.val))
        nuevo_hash == Sha256(JsonDumps(DatosCotizacion(cot.ref, monto, cot.estado,
                                                       cot.fecha_emision)))
    IN  IF Cerrada THEN [exc |-> "ProgrammingError", val |-> FALSE]
        ELSE IF ~ExisteFila(c0, "cotizaciones", id_cotizacion)
        THEN [exc |-> Finally("ValueError", cerrar_conexion), val |-> FALSE]
        ELSE IF cerrar_conexion # "" THEN [exc |-> cerrar_conexion, val |-> FALSE]
        ELSE [exc |-> "", val |-> (cot.hash_cotizacion = nuevo_hash)]

SinInforme == [id_factura |-> 0, uuid |-> "None", hash_actual |-> "None", mensaje |-> "None"]

\* repository_facturacion.py FacturaRepository.verificar_integridad(id_factura):
\* hashes the row as it is now and returns the digest; nothing is compared.
FacturaRepository_verificar_integridad(id_factura) ==
    LET c0 == conectar
        f == c0.tablas["facturas"][id_factura]
        nuevo_hash == Sha256(JsonDumps("id_factura:" \o Str(id_factura) \o ",id_oc:"
                                       \o Str(f.ref) \o ",uuid:" \o f.val
                                       \o ",monto_total:100.0"))
    IN  IF Cerrada THEN [exc |-> "ProgrammingError", val |-> SinInforme]
        ELSE IF ~ExisteFila(c0, "facturas", id_factura)
        THEN [exc |-> Finally("ValueError", cerrar_conexion), val |-> SinInforme]
        ELSE IF cerrar_conexion # "" THEN [exc |-> cerrar_conexion, val |-> SinInforme]
        ELSE [exc |-> "",
              val |-> [id_factura |-> id_factura, uuid |-> f.val, hash_actual |-> nuevo_hash,
                       mensaje |-> "Hash calculado correctamente"]]

\* facturacion/factura.py FacturaRepository.verificar_integridad(factura_id), on
\* the shared connection; `ih` is the hash record the ORDER BY timestamp DESC
\* LIMIT 1 query returns (0: none).
Factura_verificar_integridad(factura_id, ih) ==
    LET hash_actual == generar_hash_forense(tx.tablas["facturas"][factura_id].val, "100.0")
    IN  IF ~con_abierta THEN [exc |-> "ProgrammingError", val |-> <<FALSE, "None">>]
        ELSE IF ~ExisteFila(tx, "facturas", factura_id)
        THEN [exc |-> "", val |-> <<FALSE, "Factura no encontrada">>]
        ELSE IF ih = 0
        THEN [exc |-> "", val |-> <<FALSE, "No hay hash forense registrado">>]
        ELSE IF hash_actual = tx.hash_registros[ih].hash_sha256
        THEN [exc |-> "", val |-> <<TRUE, "Integridad verificada">>]
        ELSE [exc |-> "", val |-> <<FALSE, "INTEGRIDAD COMPROMETIDA">>]

\* Rows a SELECT ... ORDER BY timestamp DESC LIMIT 1 on hash_registros may
\* return for the key ({0}: none).  The clock never goes back, so the greatest
\* timestamp is that of the last row; rows of the same second tie.
UltimosPorTimestamp(d, tabla_origen, id_registro) ==
    LET S == {i \in 1..Len(d.hash_registros) :
                 /\ d.hash_registros[i].tabla_origen = tabla_origen
                 /\ d.hash_registros[i].id_registro = id_registro}
    IN  IF S = {} THEN {0}
        ELSE {i \in S : d.hash_registros[i].timestamp = d.hash_registros[Max(S)].timestamp}

\* A query: nothing but the outcome changes.
Consultar(op, args, r) ==
    /\ ~Observado
    /\ ret' = [op |-> op, exc |-> r.exc, val |-> r.val, args |-> args]
    /\ UNCHANGED <<modo, con_abierta, db, tx, reloj, nops, limpio, hilos, lector, cotizacion>>

\* The keys either ledger of a database mentions.
Claves(d) ==
    {<<d.hash_registros[i].tabla_origen, d.hash_registros[i].id_registro>> :
        i \in 1..Len(d.hash_registros)}
    \cup {<<d.historial_general[i].entidad, d.historial_general[i].id_entidad>> :
        i \in 1..Len(d.historial_general)}

\* Keys a caller asks about: every key either ledger mentions, and one that
\* neither does.
ClavesConsulta == Claves(tx) \cup {<<"factura", 0>>}

VerificarIntegridadCruzada ==
    \E k \in ClavesConsulta :
        Consultar("verificar_integridad_cruzada", k, verificar_integridad_cruzada(k[1], k[2]))

AuditoriaCompleta == Consultar("auditoria_completa", <<>>, auditoria_completa)

VerificarIntegridadEvento ==
    \E id \in 1..(Len(tx.historial_general) + 1) :
        Consultar("verificar_integridad_evento", <<id>>, verificar_integridad_evento(id))

CotizadorVerificarIntegridad ==
    \E id \in Ids :
        Consultar("CotizadorRepository.verificar_integridad", <<id>>,
                  Cotizador_verificar_integridad(id))

FacturaRepositoryVerificarIntegridad ==
    \E id \in Ids :
        Consultar("FacturaRepository.verificar_integridad", <<id>>,
                  FacturaRepository_verificar_integridad(id))

FacturaVerificarIntegridad ==
    \E id \in Ids : \E ih \in UltimosPorTimestamp(tx, "facturas", id) :
        Consultar("Factura.verificar_integridad", <<id>>,
                  Factura_verificar_integridad(id, ih))

Init ==
    /\ modo \in {"inyectada", "propia"}
    /\ con_abierta = TRUE
    /\ db = DBInicial
    /\ tx = DBInicial
    /\ reloj = 0
    /\ nops = 0
    /\ ret = [op |-> "ninguna", exc |-> "", val |-> 0, args |-> <<>>]
    /\ limpio = TRUE
    /\ hilos = HilosInicio
    /\ lector = LectorInicio
    /\ cotizacion = CotizacionNueva

Crear ==
    \E f \in FallasCrear : crear("empresa", "empresas", "x", f)

Actualizar ==
    \E id \in Ids, v \in Valores, f \in FallasEvento :
        actualizar("empresa", "empresas", id, v, f)

Eliminar ==
    \E f \in FallasEvento : eliminar("empresa", "empresas", 1, f)

CrearEmpresa ==
    \E v \in Valores, f \in FallasCrear, a \in Avances : crear_empresa(v, f, a)

CrearContacto ==
    \E id \in Ids, f \in FallasCrear, a \in Avances :
        crear_contacto(id, "x", f, a)

CrearCotizacion ==
    \E id \in Ids, f \in FallasCrear, a \in Avances :
        crear_cotizacion(id, "100", f, a)

AgregarAtributo ==
    \E f \in FallasForense, a \in Avances : agregar_atributo(1, "x", f, a)

OrdenCompraCrear ==
    \E f \in FallasSoloEvento : OrdenCompra_crear(1, "x", f)

FacturaCrear ==
    \E f \in FallasForense : Factura_crear(1, "x", f)

HistorialRegistrarEvento ==
    \E f \in FallasSoloEvento :
        Historial_registrar_evento("empresa", 1, "actualizar", "x", f)

UIRegistrarEvento ==
    \E f \in FallasSoloEvento, a \in Avances :
        UI_registrar_evento("empresa", 1, "ACTUALIZAR", "x", f, a)

CrearOC ==
    \E f \in FallasCrear, a \in Avances : crear_oc(1, "x", f, a)

OrdenCompraActualizar ==
    \E id \in Ids, f \in FallasSoloEvento : OrdenCompra_actualizar(id, "y", f)

CrearOportunidad ==
    \E id \in Ids, f \in FallasCrear, a \in Avances : crear_oportunidad(id, "y", f, a)

ActualizarOportunidad ==
    \E id \in Ids, f \in FallasCrear : actualizar_oportunidad(id, "Propuesta", f)

CrearCotizacionMonto ==
    \E m \in Montos, f \in FallasCrear, a \in Avances : crear_cotizacion(1, m, f, a)

ActualizarCotizacion ==
    \E v \in {<<"monto_total", "250.5">>, <<"estado", "Enviada">>}, f \in FallasCrear :
        /\ Libre
        /\ LET r == actualizar_cotizacion(1, v[1], v[2], f)
           IN  Terminar("actualizar_cotizacion", r.visto, r.confirmado, r.exc, 0, 0, TRUE)
        /\ UNCHANGED con_abierta

AprobarCotizacion ==
    \E f \in FallasCrear :
        /\ Libre
        /\ LET r == aprobar_cotizacion(1, f)
           IN  Terminar("aprobar_cotizacion", r.visto, r.confirmado, r.exc, 0, 0, TRUE)
        /\ UNCHANGED con_abierta

CrearFactura ==
    \E f \in FallasCrear : crear_factura(1, "x", f)

ActualizarFactura ==
    \E f \in FallasEvento : actualizar("factura", "facturas", 1, "y", f)

Next ==
    \/ Crear
    \/ Actualizar
    \/ Eliminar
    \/ CrearEmpresa
    \/ CrearContacto
    \/ CrearCotizacion
    \/ AgregarAtributo
    \/ OrdenCompraCrear
    \/ FacturaCrear
    \/ HistorialRegistrarEvento
    \/ UIRegistrarEvento
    \/ VerificarIntegridadCruzada
    \/ AuditoriaCompleta
    \/ VerificarIntegridadEvento

Spec == Init /\ [][Next]_vars

\* ------------------------------------- the database the application creates
\* The same repositories on a database created by inicializar_db() rather than
\* by init_db_v2.py.
InitApp ==
    /\ modo \in {"inyectada", "propia"}
    /\ con_abierta = TRUE
    /\ db \in {DBVacia, DBEnUso}
    /\ tx = db
    /\ reloj = 0
    /\ nops = 0
    /\ ret = [op |-> "ninguna", exc |-> "", val |-> 0, args |-> <<>>]
    /\ limpio = TRUE
    /\ hilos = HilosInicio
    /\ lector = LectorInicio
    /\ cotizacion = CotizacionNueva

NextApp ==
    \/ CrearEmpresa
    \/ CrearOC
    \/ OrdenCompraActualizar
    \/ CrearFactura
    \/ ActualizarFactura
    \/ FacturaCrear
    \/ FacturaRepositoryVerificarIntegridad
    \/ FacturaVerificarIntegridad
    \/ CrearCotizacionMonto
    \/ ActualizarCotizacion
    \/ AprobarCotizacion
    \/ CotizadorVerificarIntegridad
    \/ AuditoriaCompleta

SpecApp == InitApp /\ [][NextApp]_vars

\* The mutating operations of the domain repositories.
NextDominio ==
    \/ CrearEmpresa
    \/ CrearContacto
    \/ CrearOportunidad
    \/ CrearCotizacion
    \/ CrearOC
    \/ CrearFactura
    \/ Actualizar
    \/ ActualizarOportunidad
    \/ ActualizarCotizacion
    \/ AprobarCotizacion

SpecDominio == InitApp /\ [][NextDominio]_vars

\* ------------------------------------- concurrent calls of registrar_evento
\* Each thread calls registrar_evento(con, 1, "ACTUALIZAR", valor_nuevo) of an
\* "empresa" repository.  With an injected connection (the DatabaseV2
\* singleton is opened with check_same_thread=False) the threads share `tx`
\* and their statements run one at a time in any order; otherwise every thread
\* writes through the connection its conectar() opened.

\* The row of the INSERT INTO historial_general.
FilaEvento(h) ==
    [id_evento |-> 0, entidad |-> "empresa", id_entidad |-> 1, accion |-> "ACTUALIZAR",
     valor_anterior |-> NULL, valor_nuevo |-> JsonDumps(hilos[h].valor_nuevo),
     usuario |-> "system", timestamp |-> hilos[h].g.timestamp,
     hash_evento |-> hilos[h].g.hash, sellado |-> hilos[h].g.timestamp,
     llamada |-> h, via |-> "AUPRepository"]

\* The row of the INSERT INTO hash_registros.
FilaHash(h) ==
    [id_hash |-> 0, tabla_origen |-> "empresa", id_registro |-> 1,
     hash_sha256 |-> hilos[h].g.hash, timestamp |-> CurrentTimestamp(reloj),
     llamada |-> h, via |-> "AUPRepository"]

\* Another connection has written and not committed: it holds the write lock
\* of the database file.
BloqueadaPor(h) ==
    modo = "propia" /\ (tx # db \/ \E o \in Hilos \ {h} : hilos[o].pc \in {"evento", "registro"})

\* hash_evt, payload = self.generar_hash(accion, valor_nuevo)
Hilo_generar_hash(h) ==
    /\ hilos[h].pc = "inicio"
    /\ \E v \in Valores, a \in Avances :
          /\ reloj + a <= MaxReloj
          /\ reloj' = reloj + a
          /\ hilos' = [hilos EXCEPT
                          ![h].pc = "hash",
                          ![h].valor_nuevo = v,
                          ![h].g = generar_hash("empresa", "system", "ACTUALIZAR", v,
                                                reloj + a)]
    /\ UNCHANGED <<modo, con_abierta, db, tx, nops, ret, limpio, lector, cotizacion>>

\* con.execute(INSERT INTO historial_general ...): on its own connection the
\* statement waits while another connection holds the write lock.
Hilo_insert_historial(h) ==
    /\ hilos[h].pc = "hash"
    /\ ~BloqueadaPor(h)
    /\ IF modo = "inyectada"
       THEN /\ tx' = InsertarEvento(tx, FilaEvento(h))
            /\ hilos' = [hilos EXCEPT ![h].pc = "evento"]
       ELSE /\ tx' = tx
            /\ hilos' = [hilos EXCEPT ![h].pc = "evento",
                                      ![h].con = InsertarEvento(db, FilaEvento(h))]
    /\ UNCHANGED <<modo, con_abierta, db, reloj, nops, ret, limpio, lector, cotizacion>>

\* The wait for the write lock ran out: sqlite3.OperationalError, database is
\* locked.  The call ends with nothing written.
Hilo_database_locked(h) ==
    /\ hilos[h].pc = "hash"
    /\ BloqueadaPor(h)
    /\ hilos' = [hilos EXCEPT ![h].pc = "fin", ![h].exc = "OperationalError"]
    /\ nops' = nops + 1
    /\ ret' = [op |-> "registrar_evento", exc |-> "OperationalError", val |-> NULL,
               args |-> <<h>>]
    /\ UNCHANGED <<modo, con_abierta, db, tx, reloj, limpio, lector, cotizacion>>

\* con.execute(INSERT INTO hash_registros ...)
Hilo_insert_hash(h) ==
    /\ hilos[h].pc = "evento"
    /\ IF modo = "inyectada"
       THEN /\ tx' = InsertarHash(tx, FilaHash(h))
            /\ hilos' = [hilos EXCEPT ![h].pc = "registro"]
       ELSE /\ tx' = tx
            /\ hilos' = [hilos EXCEPT ![h].pc = "registro",
                                      ![h].con = InsertarHash(hilos[h].con, FilaHash(h))]
    /\ UNCHANGED <<modo, con_abierta, db, reloj, nops, ret, limpio, lector, cotizacion>>

\* con.commit(); return hash_evt.  The commit makes durable every row written
\* through the connection, whichever thread wrote it.
Hilo_commit(h) ==
    /\ hilos[h].pc = "registro"
    /\ IF modo = "inyectada"
       THEN db' = tx /\ tx' = tx
       ELSE db' = hilos[h].con /\ tx' = hilos[h].con
    /\ hilos' = [hilos EXCEPT ![h].pc = "fin"]
    /\ nops' = nops + 1
    /\ ret' = [op |-> "registrar_evento", exc |-> "", val |-> hilos[h].g.hash,
               args |-> <<h>>]
    /\ UNCHANGED <<modo, con_abierta, reloj, limpio, lector, cotizacion>>

NextConcurrente ==
    \E h \in Hilos :
        \/ Hilo_generar_hash(h)
        \/ Hilo_insert_historial(h)
        \/ Hilo_database_locked(h)
        \/ Hilo_insert_hash(h)
        \/ Hilo_commit(h)

SpecConcurrente == InitApp /\ [][NextConcurrente]_vars

\* ------------------------------ a cross-check concurrent with the writers
\* One thread runs verificar_integridad_cruzada("empresa", 1) while the
\* threads of registrar_evento write that key one call after the other.

\* Lines 396-413 of verificar_integridad_cruzada on the two rows fetched.
VeredictoLeido(hash_reg, hash_event, tabla_origen, id_registro) ==
    IF hash_reg = "None" \/ hash_event = "None"
    THEN [exc |-> "", val |-> [SinVeredicto EXCEPT !.resultado = "sin_datos"]]
    ELSE IF hash_reg = NULL \/ hash_event = NULL
    THEN [exc |-> "TypeError", val |-> SinVeredicto]
    ELSE [exc |-> "",
          val |-> [resultado |-> "None",
                   integridad_ok |-> IF hash_reg = hash_event THEN "True" ELSE "False",
                   tabla_origen |-> tabla_origen, id_registro |-> id_registro,
                   hash_completo_registro |-> hash_reg,
                   hash_completo_evento |-> hash_event]]

\* A registrar_evento call starts when no other call is under way.
EnSerie(h) == \A o \in Hilos \ {h} : hilos[o].pc \in {"inicio", "fin"}

Hilo_generar_hash_en_serie(h) == EnSerie(h) /\ Hilo_generar_hash(h)

\* con = self.conectar(); SELECT hash_sha256 FROM hash_registros WHERE ...
\* ORDER BY id_hash DESC LIMIT 1; fetchone()
Lector_select_hash ==
    /\ lector.pc = "inicio"
    /\ LET ih == UltimoHash(conectar, "empresa", 1)
       IN  IF Cerrada
           THEN /\ lector' = [lector EXCEPT !.pc = "fin"]
                /\ ret' = [op |-> "verificar_integridad_cruzada", exc |-> "ProgrammingError",
                           val |-> SinVeredicto, args |-> <<"empresa", 1>>]
           ELSE /\ lector' = [lector EXCEPT
                                 !.pc = "hash",
                                 !.hash_reg = IF ih = 0 THEN "None"
                                              ELSE conectar.hash_registros[ih].hash_sha256]
                /\ ret' = ret
    /\ UNCHANGED <<modo, con_abierta, db, tx, reloj, nops, limpio, hilos, cotizacion>>

\* SELECT hash_evento FROM historial_general WHERE ... ORDER BY id_evento DESC
\* LIMIT 1; fetchone(); cerrar_conexion; the verdict.
Lector_select_evento ==
    /\ lector.pc = "hash"
    /\ LET ie == UltimoEvento(conectar, "empresa", 1)
           hash_event == IF ie = 0 THEN "None" ELSE conectar.historial_general[ie].hash_evento
           r == IF cerrar_conexion # "" THEN [exc |-> cerrar_conexion, val |-> SinVeredicto]
                ELSE VeredictoLeido(lector.hash_reg, hash_event, "empresa", 1)
       IN  /\ lector' = [lector EXCEPT !.pc = "fin", !.hash_event = hash_event]
           /\ ret' = [op |-> "verificar_integridad_cruzada", exc |-> r.exc, val |-> r.val,
                      args |-> <<"empresa", 1>>]
    /\ UNCHANGED <<modo, con_abierta, db, tx, reloj, nops, limpio, hilos, cotizacion>>

NextLectura ==
    \/ \E h \in Hilos :
          \/ Hilo_generar_hash_en_serie(h)
          \/ Hilo_insert_historial(h)
          \/ Hilo_insert_hash(h)
          \/ Hilo_commit(h)
    \/ Lector_select_hash
    \/ Lector_select_evento

SpecLectura == InitApp /\ [][NextLectura]_vars

\* --------------------------------------------------- the history of a key
\* Indices of the events of the key.
IndicesDe(d, entidad, id_entidad) ==
    {i \in 1..Len(d.historial_general) :
        /\ d.historial_general[i].entidad = entidad
        /\ d.historial_general[i].id_entidad = id_entidad}

\* The columns linea_tiempo selects.
FilaLinea(e) ==
    [id_evento |-> e.id_evento, accion |-> e.accion, usuario |-> e.usuario,
     timestamp |-> e.timestamp, valor_anterior |-> e.valor_anterior,
     valor_nuevo |-> e.valor_nuevo, hash_evento |-> e.hash_evento]

\* The rows of the indices, by ascending index.
RECURSIVE EnOrdenDeId(_, _)
EnOrdenDeId(d, S) ==
    IF S = {} THEN <<>>
    ELSE EnOrdenDeId(d, S \ {Max(S)}) \o <<FilaLinea(d.historial_general[Max(S)])>>

\* HistorialGeneralRepository.linea_tiempo(entidad, id_entidad): conectar, the
\* SELECT ... ORDER BY id_evento ASC, cerrar_conexion, the list.
linea_tiempo(entidad, id_entidad) ==
    IF Cerrada THEN [exc |-> "ProgrammingError", val |-> <<>>]
    ELSE IF cerrar_conexion # "" THEN [exc |-> cerrar_conexion, val |-> <<>>]
    ELSE [exc |-> "", val |-> EnOrdenDeId(conectar, IndicesDe(conectar, entidad, id_entidad))]

LineaTiempo ==
    \E id \in Ids : Consultar("linea_tiempo", <<"empresa", id>>, linea_tiempo("empresa", id))

\* Place of a stored timestamp when the column is compared as text, for
\* timestamps of one day: "YYYY-MM-DD HH:MM:SS" comes before every
\* "YYYY-MM-DDTHH:MM:SS...", and a string comes before its extensions.
RangoTexto(ts) ==
    IF \E t \in 0..MaxReloj : ts = CurrentTimestamp(t)
    THEN CHOOSE t \in 0..MaxReloj : ts = CurrentTimestamp(t)
    ELSE IF \E t \in 0..MaxReloj : ts = IsoNaive(t)
    THEN MaxReloj + 1 + 2 * (CHOOSE t \in 0..MaxReloj : ts = IsoNaive(t))
    ELSE MaxReloj + 2 + 2 * (CHOOSE t \in 0..MaxReloj : ts = IsoUTC(t))

\* The orders in which SELECT ... ORDER BY timestamp DESC LIMIT limite may
\* return the rows of the indices: rows of one timestamp come in any order.
OrdenesPorTimestamp(d, S, limite) ==
    LET n == IF Cardinality(S) < limite THEN Cardinality(S) ELSE limite
    IN  {o \in [1..n -> S] :
            /\ \A i, j \in 1..n : i # j => o[i] # o[j]
            /\ \A i \in 1..n : \A k \in S :
                  (\A j \in 1..i : o[j] # k) =>
                      RangoTexto(d.historial_general[k].timestamp)
                          <= RangoTexto(d.historial_general[o[i]].timestamp)}

\* The EventoHistorial built from a row.
EventoDeFila(row) ==
    [id |-> row.id_evento, entidad |-> row.entidad, id_entidad |-> row.id_entidad,
     accion |-> row.accion, valor_anterior |-> OVacio(row.valor_anterior),
     valor_nuevo |-> OVacio(row.valor_nuevo), usuario |-> row.usuario,
     timestamp |-> Reformatear(row.timestamp), hash_evento |-> row.hash_evento]

\* limite of obtener_historial_entidad when the caller passes none, and the
\* one generar_cadena_custodia passes.
LimitePorDefecto == 50
LimiteCadena == 1000

\* HistorialRepository.obtener_historial_entidad(entidad, id_entidad, limite),
\* on the shared connection; `o` is the order the SELECT returned.
obtener_historial_entidad(o) ==
    IF ~con_abierta THEN [exc |-> "ProgrammingError", val |-> <<>>]
    ELSE [exc |-> "", val |-> [i \in DOMAIN o |-> EventoDeFila(tx.historial_general[o[i]])]]

ObtenerHistorialEntidad ==
    \E id \in Ids :
        \E o \in OrdenesPorTimestamp(tx, IndicesDe(tx, "empresa", id), LimitePorDefecto) :
            Consultar("obtener_historial_entidad", <<"empresa", id>>,
                      obtener_historial_entidad(o))

\* HistorialRepository.generar_cadena_custodia(entidad, id_entidad): the events
\* of obtener_historial_entidad in the order it returned them, each with the
\* outcome of verificar_integridad_evento.
generar_cadena_custodia(entidad, id_entidad, o) ==
    LET eventos == obtener_historial_entidad(o)
        integro(i) == verificar_integridad_evento(eventos.val[i].id).val
    IN  IF eventos.exc # "" THEN [exc |-> eventos.exc, val |-> <<>>]
        ELSE [exc |-> "",
              val |-> [entidad |-> entidad, id_entidad |-> id_entidad,
                       total_eventos |-> Len(eventos.val),
                       eventos |-> [i \in DOMAIN o |->
                                       [evento |-> eventos.val[i], integridad |-> integro(i)]],
                       integridad_verificada |-> \A i \in DOMAIN o : integro(i),
                       eventos_comprometidos |->
                           SelectSeq([i \in DOMAIN o |-> eventos.val[i].id],
                                     LAMBDA id : ~verificar_integridad_evento(id).val)]]

GenerarCadenaCustodia ==
    \E id \in Ids :
        \E o \in OrdenesPorTimestamp(tx, IndicesDe(tx, "empresa", id), LimiteCadena) :
            Consultar("generar_cadena_custodia", <<"empresa", id>>,
                      generar_cadena_custodia("empresa", id, o))

NextHistorial ==
    \/ Crear
    \/ Actualizar
    \/ CrearEmpresa
    \/ UIRegistrarEvento
    \/ HistorialRegistrarEvento
    \/ LineaTiempo
    \/ ObtenerHistorialEntidad
    \/ GenerarCadenaCustodia

SpecHistorial == Init /\ [][NextHistorial]_vars

\* ------------------------------------------------- winning an oportunidad
\* What may fail inside marcar_ganada_y_convertir: the first UPDATE, the
\* registration of MARCAR_GANADA, the UPDATE of prospectos, the registration
\* of CONVERSION_CLIENTE.
FallasConversion ==
    {"ninguna", "update_oportunidades", "marcar_ganada", "update_prospectos",
     "conversion_cliente"}

\* UPDATE prospectos SET estado = 'convertido'; UPDATE empresas SET
\* tipo_cliente = 'cliente' WHERE id_empresa = (the prospecto's); UPDATE
\* oportunidades SET id_cliente = (the prospecto's id_empresa).
ConvertirProspecto(d, id_oportunidad, id_prospecto) ==
    LET id_empresa == d.tablas["prospectos"][id_prospecto].ref
        d1 == [d EXCEPT !.tablas["prospectos"][id_prospecto].val = "convertido"]
        d2 == IF ExisteFila(d1, "empresas", id_empresa)
              THEN [d1 EXCEPT !.tablas["empresas"][id_empresa].tipo_cliente = "cliente"]
              ELSE d1
    IN  [d2 EXCEPT !.tablas["oportunidades"][id_oportunidad].id_cliente = id_empresa]

\* OportunidadRepository.marcar_ganada_y_convertir(id_oportunidad)
marcar_ganada_y_convertir(id_oportunidad, falla, avance) ==
    /\ Libre
    /\ reloj + avance <= MaxReloj
    /\ LET c0 == conectar
           row == /\ ExisteFila(c0, "oportunidades", id_oportunidad)
                  /\ ExisteFila(c0, "prospectos",
                                c0.tablas["oportunidades"][id_oportunidad].ref)
           id_prospecto == c0.tablas["oportunidades"][id_oportunidad].ref
           c1 == [c0 EXCEPT !.tablas["oportunidades"][id_oportunidad].estado = "ganada"]
           r1 == registrar_evento(c1, "oportunidad", "system", id_oportunidad,
                                  "MARCAR_GANADA",
                                  "etapa:Ganada,estado:ganada,probabilidad:100", NULL, reloj,
                                  IF falla = "marcar_ganada" THEN "insert_hash" ELSE "ninguna",
                                  Llamada(1))
           c2 == ConvertirProspecto(r1.d, id_oportunidad, id_prospecto)
           r2 == registrar_evento(c2, "oportunidad", "system", id_prospecto,
                                  "CONVERSION_CLIENTE",
                                  "estado:convertido,razon:Oportunidad "
                                      \o Str(id_oportunidad) \o " ganada",
                                  NULL, reloj + avance,
                                  IF falla = "conversion_cliente" THEN "insert_hash"
                                  ELSE "ninguna",
                                  Llamada(2))
       IN  IF Cerrada
           THEN TerminarCon("marcar_ganada_y_convertir", <<id_oportunidad>>,
                            tx, db, "ProgrammingError", FALSE, avance, FALSE)
           ELSE IF ~row
           THEN TerminarCon("marcar_ganada_y_convertir", <<id_oportunidad>>,
                            c0, db, Finally("ValueError", cerrar_conexion),
                            FALSE, avance, FALSE)
           ELSE IF Bloqueada \/ falla = "update_oportunidades"
           THEN TerminarCon("marcar_ganada_y_convertir", <<id_oportunidad>>,
                            c0, db, "OperationalError", FALSE, avance, FALSE)
           ELSE IF r1.exc # ""
           THEN \* con.commit() at line 246 stands; nothing rolls back
                TerminarCon("marcar_ganada_y_convertir", <<id_oportunidad>>,
                            r1.d, c1, r1.exc, FALSE, avance, FALSE)
           ELSE IF falla = "update_prospectos"
           THEN TerminarCon("marcar_ganada_y_convertir", <<id_oportunidad>>,
                            r1.d, r1.d, "OperationalError", FALSE, avance, FALSE)
           ELSE IF r2.exc # ""
           THEN \* con.commit() at line 268 stands
                TerminarCon("marcar_ganada_y_convertir", <<id_oportunidad>>,
                            r2.d, c2, r2.exc, FALSE, avance, FALSE)
           ELSE TerminarCon("marcar_ganada_y_convertir", <<id_oportunidad>>,
                            r2.d, r2.d, Finally("", cerrar_conexion), TRUE, avance, FALSE)
    /\ UNCHANGED con_abierta

MarcarGanadaYConvertir ==
    \E id \in Ids, f \in FallasConversion, a \in Avances :
        marcar_ganada_y_convertir(id, f, a)

LineaTiempoOportunidad ==
    \E id \in Ids :
        Consultar("linea_tiempo", <<"oportunidad", id>>, linea_tiempo("oportunidad", id))

NextConversion ==
    \/ CrearOportunidad
    \/ MarcarGanadaYConvertir
    \/ LineaTiempoOportunidad

SpecConversion == InitApp /\ [][NextConversion]_vars

\* ------------------------------------------ the audit, one key at a time
\* One pass of the loop of auditoria_completa (lines 444-458).
Iteracion(reg, resultados) ==
    LET resultado == verificar_integridad_cruzada(reg[1], reg[2])
        r1 == [resultados EXCEPT !.total_verificados = @ + 1]
    IN  IF resultado.exc # "" THEN [exc |-> resultado.exc, val |-> resultados]
        ELSE IF resultado.val.resultado = "sin_datos"
        THEN [exc |-> "", val |-> [r1 EXCEPT !.sin_datos = @ + 1]]
        ELSE IF resultado.val.integridad_ok = "True"
        THEN [exc |-> "", val |-> [r1 EXCEPT !.integridad_ok = @ + 1]]
        ELSE [exc |-> "", val |-> [r1 EXCEPT !.integridad_error = @ + 1,
                                            !.detalles = Append(@, resultado.val)]]

\* The audit ends: what the caller gets.
AuditorTermina(exc, val) ==
    /\ ret' = [op |-> "auditoria_completa", exc |-> exc, val |-> val, args |-> <<>>]
    /\ UNCHANGED <<modo, con_abierta, db, tx, reloj, nops, limpio, hilos, cotizacion>>

\* Lines 425-442: conectar, SELECT DISTINCT tabla_origen, id_registro,
\* cerrar_conexion, the empty counts.
Auditor_select_distinct ==
    /\ lector.pc = "inicio"
    /\ ~Observado
    /\ IF Cerrada
       THEN /\ lector' = [lector EXCEPT !.pc = "fin"]
            /\ AuditorTermina("ProgrammingError", ResultadosVacios)
       ELSE IF cerrar_conexion # ""
       THEN /\ lector' = [lector EXCEPT !.pc = "fin"]
            /\ AuditorTermina(cerrar_conexion, ResultadosVacios)
       ELSE /\ lector' = [lector EXCEPT !.pc = "bucle",
                                        !.registros = Distintos(conectar.hash_registros, {}),
                                        !.resultados = ResultadosVacios]
            /\ UNCHANGED <<modo, con_abierta, db, tx, reloj, nops, ret, limpio, hilos, cotizacion>>

\* for reg in registros: one verification and its count.
Auditor_verificar ==
    /\ lector.pc = "bucle"
    /\ lector.registros # <<>>
    /\ LET r == Iteracion(Head(lector.registros), lector.resultados)
       IN  IF r.exc # ""
           THEN /\ lector' = [lector EXCEPT !.pc = "fin"]
                /\ AuditorTermina(r.exc, ResultadosVacios)
           ELSE /\ lector' = [lector EXCEPT !.registros = Tail(@), !.resultados = r.val]
                /\ UNCHANGED <<modo, con_abierta, db, tx, reloj, nops, ret, limpio, hilos, cotizacion>>

\* return resultados
Auditor_return ==
    /\ lector.pc = "bucle"
    /\ lector.registros = <<>>
    /\ lector' = [lector EXCEPT !.pc = "fin"]
    /\ AuditorTermina("", lector.resultados)

\* The audit is between two verifications.
EntreVerificaciones ==
    /\ lector.pc = "bucle"
    /\ lector.resultados.total_verificados > 0
    /\ lector.registros # <<>>
    /\ ~lector.cancelada

\* The caller asks the audit to stop.  auditoria_completa takes no argument
\* and reads no flag or event inside its loop: the request changes nothing
\* the loop looks at.
Cancelar_sin_efecto ==
    /\ EntreVerificaciones
    /\ lector' = [lector EXCEPT !.cancelada = TRUE, !.al_cancelar = lector.resultados]
    /\ UNCHANGED <<modo, con_abierta, db, tx, reloj, nops, ret, limpio, hilos, cotizacion>>

\* The request arrives as an interrupt of the thread that runs the audit:
\* KeyboardInterrupt leaves the loop, and the local `resultados` with it.
Cancelar_KeyboardInterrupt ==
    /\ EntreVerificaciones
    /\ lector' = [lector EXCEPT !.cancelada = TRUE, !.al_cancelar = lector.resultados,
                                !.pc = "fin"]
    /\ AuditorTermina("KeyboardInterrupt", ResultadosVacios)

NextAuditoria ==
    \/ Crear
    \/ Actualizar
    \/ Auditor_select_distinct
    \/ Auditor_verificar
    \/ Auditor_return
    \/ Cancelar_sin_efecto
    \/ Cancelar_KeyboardInterrupt

SpecAuditoria == Init /\ [][NextAuditoria]_vars

\* ------------------------------------------------- the Cotizacion object
\* float(self.monto_total) as json.dumps writes it.
Float(monto_total) == IF monto_total = "100.00" THEN "100.0" ELSE "250.5"

\* Values a caller assigns to the attributes of the dataclass.
CamposCotizacion ==
    [id_oportunidad |-> {1, 2}, modo |-> {"minimo", "generico"},
     monto_total |-> {"100.00", "250.50"}, moneda |-> {"MXN", "USD"}, version |-> {1, 2},
     estado |-> {"Borrador", "Enviada"}, notas |-> {"", "vigencia 30 dias"}]

\* Cotizacion.generar_hash: the digest of id_oportunidad, modo, monto_total,
\* moneda, version and fecha_creacion, stored in self.hash_integridad and
\* returned.
Cotizacion_generar_hash(self) ==
    LET data == "fecha_creacion:" \o IsoNaive(self.fecha_creacion)
                \o ",id_oportunidad:" \o Str(self.id_oportunidad)
                \o ",modo:" \o self.modo
                \o ",moneda:" \o self.moneda
                \o ",monto_total:" \o Float(self.monto_total)
                \o ",version:" \o Str(self.version)
        h == Sha256(JsonDumps(data))
    IN  [self |-> [self EXCEPT !.hash_integridad = h], val |-> h]

\* Cotizacion.verificar_integridad: hash_actual = self.generar_hash(), then
\* the comparison with self.hash_integridad as generar_hash left it.
Cotizacion_verificar_integridad(self) ==
    LET g == Cotizacion_generar_hash(self)
        hash_actual == g.val
    IN  [self |-> g.self, val |-> hash_actual = g.self.hash_integridad]

CotizacionGenerarHash ==
    /\ ~Observado
    /\ LET g == Cotizacion_generar_hash(cotizacion)
       IN  /\ cotizacion' = g.self
           /\ ret' = [op |-> "Cotizacion.generar_hash", exc |-> "", val |-> g.val,
                      args |-> <<>>]
    /\ UNCHANGED <<modo, con_abierta, db, tx, reloj, nops, limpio, hilos, lector>>

\* cotizacion.<campo> = valor
CotizacionAsignar ==
    /\ ~Observado
    /\ \E campo \in DOMAIN CamposCotizacion : \E valor \in CamposCotizacion[campo] :
          /\ cotizacion[campo] # valor
          /\ cotizacion' = [cotizacion EXCEPT ![campo] = valor]
    /\ UNCHANGED <<modo, con_abierta, db, tx, reloj, nops, ret, limpio, hilos, lector>>

CotizacionVerificarIntegridad ==
    /\ ~Observado
    /\ LET v == Cotizacion_verificar_integridad(cotizacion)
       IN  /\ cotizacion' = v.self
           /\ ret' = [op |-> "Cotizacion.verificar_integridad", exc |-> "", val |-> v.val,
                      args |-> <<cotizacion>>]
    /\ UNCHANGED <<modo, con_abierta, db, tx, reloj, nops, limpio, hilos, lector>>

NextCotizacion ==
    \/ CotizacionGenerarHash
    \/ CotizacionAsignar
    \/ CotizacionVerificarIntegridad

SpecCotizacion == Init /\ [][NextCotizacion]_vars

\* ------------------------------------------------------------ properties
Eventos(d) == {d.historial_general[i] : i \in 1..Len(d.historial_general)}

Registros(d) == {d.hash_registros[i] : i \in 1..Len(d.hash_registros)}

EsPrefijo(a, b) == Len(a) <= Len(b) /\ \A i \in 1..Len(a) : a[i] = b[i]

\* The latest digests of the two ledgers for the key exist and differ.
Desacuerdo(d, k) ==
    LET ih == UltimoHash(d, k[1], k[2])
        ie == UltimoEvento(d, k[1], k[2])
    IN  /\ ih # 0
        /\ ie # 0
        /\ d.hash_registros[ih].hash_sha256 # d.historial_general[ie].hash_evento

\* C1: in every committed state, the historial_general row and the
\* hash_registros row of each AUPRepository.registrar_evento call are both
\* present or both absent, also when the call fails between its two INSERTs
\* and a later operation on the shared connection commits.
C1_ParAtomico ==
    \A k \in 1..(2 * MaxOps + 1) :
        (\E e \in Eventos(db) : e.via = "AUPRepository" /\ e.llamada = k)
        <=> (\E h \in Registros(db) : h.via = "AUPRepository" /\ h.llamada = k)

\* Keys recorded through AUPRepository.registrar_evento.
ClavesAUP ==
    {<<e.entidad, e.id_entidad>> : e \in {x \in Eventos(db) : x.via = "AUPRepository"}}

\* C2: after successful AUPRepository-based operations only,
\* verificar_integridad_cruzada returns integridad_ok = True for every key
\* they recorded.
C2_CruceCorrecto ==
    (limpio /\ ret.op = "verificar_integridad_cruzada" /\ ret.args \in ClavesAUP)
        => (ret.exc = "" /\ ret.val.integridad_ok = "True")

Creaciones == {"crear", "crear_empresa", "crear_contacto", "crear_cotizacion"}

\* C3: a create operation that raises because the forensic registration (or
\* any storage call) failed leaves the committed database as it was before
\* the call.
C3_CrearTodoONada ==
    [][(/\ nops' = nops + 1
        /\ ret'.op \in Creaciones
        /\ ret'.exc \in {"TypeError", "OperationalError"}) => db' = db]_vars

C5_MismaClave ==
    \A e \in Eventos(db), h \in Registros(db) :
        (e.llamada # 0 /\ e.llamada = h.llamada)
            => (e.entidad = h.tabla_origen /\ e.id_entidad = h.id_registro)

Sellan == {"AUPRepository", "AtributosRepository", "ui.identidad"}

\* C6: the timestamp stored in an event row is the value that went into its
\* digest, on each of the three record-event paths.
C6_TimestampSellado ==
    \A e \in Eventos(db) : e.via \in Sellan => e.timestamp = e.sellado

\* C7: verificar_integridad_evento returns True for every stored event,
\* whichever repository wrote it.
C7_EventoVerificable ==
    (/\ ret.op = "verificar_integridad_evento"
     /\ ret.exc = ""
     /\ ret.args[1] \in 1..Len(tx.historial_general)) => ret.val = TRUE

\* C8: verificar_integridad_cruzada returns the sin_datos verdict, and raises
\* nothing, whenever either ledger holds no row for the key.
C8_SinDatos ==
    (/\ ret.op = "verificar_integridad_cruzada"
     /\ \/ UltimoHash(conectar, ret.args[1], ret.args[2]) = 0
        \/ UltimoEvento(conectar, ret.args[1], ret.args[2]) = 0)
        => (ret.exc = "" /\ ret.val.resultado = "sin_datos")

\* C9: when both ledgers hold rows for the key, verificar_integridad_cruzada
\* reports integridad_ok = True exactly when the hash record of greatest
\* id_hash and the event of greatest id_evento carry the same digest.
C9_UltimasFilas ==
    (/\ ret.op = "verificar_integridad_cruzada"
     /\ UltimoHash(conectar, ret.args[1], ret.args[2]) # 0
     /\ UltimoEvento(conectar, ret.args[1], ret.args[2]) # 0)
        => ((ret.exc = "" /\ ret.val.integridad_ok = "True")
                <=> ~Desacuerdo(conectar, ret.args))

\* C10: in a report returned by auditoria_completa, the keys whose latest
\* digests disagree are counted in integridad_error and appear exactly once
\* in detalles, and detalles holds no other key.
C10_InformeFiel ==
    (ret.op = "auditoria_completa" /\ ret.exc = "") =>
        LET mal == {k \in Claves(conectar) : Desacuerdo(conectar, k)}
            det == ret.val.detalles
            clave(i) == <<det[i].tabla_origen, det[i].id_registro>>
        IN  /\ ret.val.integridad_error = Cardinality(mal)
            /\ \A k \in mal : Cardinality({i \in 1..Len(det) : clave(i) = k}) = 1
            /\ \A i \in 1..Len(det) : clave(i) \in mal

\* C10 witness: a returned report with a mismatch in detalles and a key
\* without data counted apart.
C10_Testigo ==
    /\ ret.op = "auditoria_completa"
    /\ ret.exc = ""
    /\ Len(ret.val.detalles) >= 1
    /\ ret.val.integridad_error >= 1
    /\ ret.val.sin_datos >= 1

\* Every key either ledger mentions has a digest in both.
EnAmbos(d) ==
    /\ Claves(d) # {}
    /\ \A k \in Claves(d) :
          /\ UltimoHash(d, k[1], k[2]) # 0
          /\ UltimoEvento(d, k[1], k[2]) # 0
          /\ d.historial_general[UltimoEvento(d, k[1], k[2])].hash_evento # NULL

\* C11: on ledgers where every key is present in both, K keys with equal
\* latest digests and M keys with differing ones, auditoria_completa returns
\* integridad_ok = K and integridad_error = M.
C11_ConteoAuditoria ==
    (ret.op = "auditoria_completa" /\ EnAmbos(conectar)) =>
        /\ ret.exc = ""
        /\ ret.val.integridad_ok =
               Cardinality({k \in Claves(conectar) : ~Desacuerdo(conectar, k)})
        /\ ret.val.integridad_error =
               Cardinality({k \in Claves(conectar) : Desacuerdo(conectar, k)})

\* C12: auditoria_completa finishes the scan over every enumerated key: a
\* key whose verification fails (its latest event has a NULL hash_evento) is
\* counted as sin_datos and the remaining keys are verified and counted.
C12_AuditoriaTermina ==
    (/\ ret.op = "auditoria_completa"
     /\ modo = "inyectada"
     /\ con_abierta) =>
        LET claves == Distintos(tx.hash_registros, {})
            nulas == {i \in 1..Len(claves) :
                        /\ UltimoEvento(tx, claves[i][1], claves[i][2]) # 0
                        /\ tx.historial_general[UltimoEvento(tx, claves[i][1], claves[i][2])]
                              .hash_evento = NULL}
        IN  /\ ret.exc = ""
            /\ ret.val.total_verificados = Len(claves)
            /\ ret.val.sin_datos >= Cardinality(nulas)

\* The factura exists, the digest made when it was inserted is stored under
\* the key, and its hashed columns are no longer those it was inserted with.
FacturaAlterada(d, clave, id) ==
    /\ ExisteFila(d, "facturas", id)
    /\ UltimoHash(d, clave, id) # 0
    /\ d.tablas["facturas"][id].val # d.tablas["facturas"][id].orig

\* The cotización exists and a hashed column is no longer what it was
\* inserted, and hashed, with.
CotizacionAlterada(d, id) ==
    /\ ExisteFila(d, "cotizaciones", id)
    /\ \/ ColumnaReal(d.tablas["cotizaciones"][id].val)
             # ColumnaReal(d.tablas["cotizaciones"][id].orig)
       \/ d.tablas["cotizaciones"][id].estado # "borrador"

\* C13: a recomputation-based integrity check reports the record as not intact
\* whenever a hashed field of the stored row differs from the value hashed when
\* its digest was stored, also when the cross verification of the key is ok.
C13_DetectaAlteracion ==
    /\ (/\ ret.op = "FacturaRepository.verificar_integridad"
        /\ modo = "inyectada"
        /\ con_abierta
        /\ FacturaAlterada(tx, "factura", ret.args[1]))
           => (ret.exc = "" /\ ret.val.mensaje # "Hash calculado correctamente")
    /\ (/\ ret.op = "Factura.verificar_integridad"
        /\ con_abierta
        /\ FacturaAlterada(tx, "facturas", ret.args[1]))
           => (ret.exc = "" /\ ret.val[1] = FALSE)
    /\ (/\ ret.op = "CotizadorRepository.verificar_integridad"
        /\ modo = "inyectada"
        /\ con_abierta
        /\ CotizacionAlterada(tx, ret.args[1]))
           => (ret.exc = "" /\ ret.val = FALSE)

\* The cotización was created by a crear_cotizacion that returned.
CotizacionCreada(d, id) ==
    /\ ExisteFila(d, "cotizaciones", id)
    /\ \E e \in Eventos(d) :
          e.entidad = "cotizacion" /\ e.id_entidad = id /\ e.accion = "CREAR"

\* C14: for a cotización created by crear_cotizacion, verificar_integridad
\* returns True after any sequence of the repository's own operations on it.
C14_IntegraTrasOperaciones ==
    (/\ ret.op = "CotizadorRepository.verificar_integridad"
     /\ modo = "inyectada"
     /\ con_abierta
     /\ CotizacionCreada(tx, ret.args[1])) => (ret.exc = "" /\ ret.val = TRUE)

Mutaciones ==
    {"crear_empresa", "crear_contacto", "crear_oportunidad", "crear_cotizacion", "crear_oc",
     "crear_factura", "actualizar", "actualizar_oportunidad", "actualizar_cotizacion",
     "aprobar_cotizacion"}

\* The entidad of the repository an operation of SpecDominio belongs to.
EntidadDe(op) ==
    CASE op \in {"crear_empresa", "actualizar"} -> "empresa"
      [] op = "crear_contacto" -> "contacto"
      [] op \in {"crear_oportunidad", "actualizar_oportunidad"} -> "oportunidad"
      [] op \in {"crear_cotizacion", "actualizar_cotizacion", "aprobar_cotizacion"}
            -> "cotizacion"
      [] op = "crear_oc" -> "orden_compra"
      [] op = "crear_factura" -> "factura"

\* The id a create operation returned.
IdDevuelto(op, val) ==
    IF op \in {"crear_cotizacion", "crear_oc", "crear_factura"} THEN val[1] ELSE val

\* C15: every successful mutating operation of the domain repositories
\* appends at least one new row to historial_general and at least one new row
\* to hash_registros for the affected record, and keeps every earlier row,
\* also when earlier rows for the same key exist.
C15_AgregaAmbos ==
    [][(nops' = nops + 1 /\ ret'.op \in Mutaciones /\ ret'.exc = "") =>
          /\ EsPrefijo(db.historial_general, db'.historial_general)
          /\ EsPrefijo(db.hash_registros, db'.hash_registros)
          /\ \E i \in (Len(db.historial_general) + 1)..Len(db'.historial_general),
                j \in (Len(db.hash_registros) + 1)..Len(db'.hash_registros) :
                /\ db'.historial_general[i].entidad = EntidadDe(ret'.op)
                /\ db'.hash_registros[j].tabla_origen = EntidadDe(ret'.op)
                /\ db'.hash_registros[j].id_registro = db'.historial_general[i].id_entidad
                /\ ret'.op \in {"crear_empresa", "crear_contacto", "crear_oportunidad",
                                "crear_cotizacion", "crear_oc", "crear_factura"}
                      => db'.historial_general[i].id_entidad = IdDevuelto(ret'.op, ret'.val)
      ]_vars

\* C15 witness: a successful update of a cotización whose key already had an
\* event and a hash record; both ledgers now hold two rows for the key.
C15_Testigo ==
    /\ ret.op \in {"actualizar_cotizacion", "aprobar_cotizacion"}
    /\ ret.exc = ""
    /\ Cardinality({e \in Eventos(db) : e.entidad = "cotizacion" /\ e.id_entidad = 1}) >= 2
    /\ Cardinality({h \in Registros(db) :
                        h.tabla_origen = "cotizacion" /\ h.id_registro = 1}) >= 2

\* The table has no live row of the id.
Falta(d, tabla, id) == id \notin 1..Len(d.tablas[tabla]) \/ ~d.tablas[tabla][id].vivo

PadreDe(op) ==
    CASE op = "crear_oportunidad" -> "prospectos"
      [] op = "crear_cotizacion" -> "oportunidades"
      [] op = "crear_factura" -> "ordenes_compra"

\* C19: crear_oportunidad, crear_cotizacion and crear_factura called with a
\* parent id that does not exist raise an exception and leave the domain
\* tables, historial_general and hash_registros exactly as they were.
C19_PadreInexistente ==
    [][(/\ nops' = nops + 1
        /\ ret'.op \in {"crear_oportunidad", "crear_cotizacion", "crear_factura"}
        /\ Falta(conectar, PadreDe(ret'.op), ret'.args[1]))
          => (ret'.exc # "" /\ db' = db /\ tx' = tx)
      ]_vars

\* C19 witness: crear_cotizacion was refused for a missing oportunidad on a
\* database that already holds ledger rows.
C19_Testigo ==
    /\ ret.op = "crear_cotizacion"
    /\ ret.exc = "ValueError"
    /\ Falta(tx, "oportunidades", ret.args[1])
    /\ Len(db.historial_general) >= 1
    /\ Len(db.hash_registros) >= 1

\* The logical fields of an event row.
CamposLogicos(e) ==
    <<e.entidad, Str(e.id_entidad), e.accion, e.valor_nuevo, e.usuario, e.timestamp>>

DifierenEnUno(a, b) ==
    Cardinality({i \in DOMAIN CamposLogicos(a) : CamposLogicos(a)[i] # CamposLogicos(b)[i]}) = 1

\* C16: two events recorded by AUPRepository.registrar_evento whose logical
\* fields (entity type, entity id, action, new value, actor, timestamp) differ
\* in exactly one field, the entity id included, are stored with different
\* digests.
C16_DigestosDistintos ==
    \A a, b \in Eventos(db) :
        (a.via = "AUPRepository" /\ b.via = "AUPRepository" /\ DifierenEnUno(a, b))
            => a.hash_evento # b.hash_evento

\* The column holds what hexdigest() returns: all of Sha256(raw) for some raw.
EsDigestoCompleto(h) ==
    /\ h # NULL
    /\ Len(h) > Len(Sha256(""))
    /\ \E raw \in {SubSeq(h, Len("sha256(") + 1, Len(h) - 1)} : h = Sha256(raw)

\* C17: every row of historial_general carries a non-null hash_evento that is
\* a full SHA-256 digest.
C17_DigestoCompleto ==
    \A e \in Eventos(db) : EsDigestoCompleto(e.hash_evento)

\* The operations that pass a payload to AUPRepository.registrar_evento.
RegistranEvento == Creaciones \cup {"actualizar", "eliminar"}

\* C18: when the payload of a record-event operation cannot be serialized to
\* JSON the operation raises, and the committed historial_general,
\* hash_registros and domain tables hold no row from it.
C18_SinFilaTrasSerializar ==
    [][(/\ nops' = nops + 1
        /\ ret'.op \in RegistranEvento
        /\ ret'.exc = "TypeError")
          => /\ db'.historial_general = db.historial_general
             /\ db'.hash_registros = db.hash_registros
             /\ db'.tablas = db.tablas
      ]_vars

\* C20: when two registrar_evento calls for the same (entidad, id) run
\* concurrently, once both have completed the latest event and the latest hash
\* record of the key come from the same call.
C20_SinIntercalar ==
    (\A h \in Hilos : hilos[h].pc = "fin" /\ hilos[h].exc = "")
        => db.historial_general[UltimoEvento(db, "empresa", 1)].llamada
               = db.hash_registros[UltimoHash(db, "empresa", 1)].llamada

\* The calls whose rows a ledger holds (0 marks rows written before the run).
LlamadasDe(filas) == {filas[i].llamada : i \in 1..Len(filas)}

\* The ledger states at the boundaries of the calls that wrote `d`: both
\* ledgers cut so that each call has both of its rows in or both out.
EstadosEntreLlamadas(d) ==
    {[d EXCEPT !.historial_general = SubSeq(@, 1, i), !.hash_registros = SubSeq(@, 1, j)] :
        <<i, j>> \in {c \in (0..Len(d.historial_general)) \X (0..Len(d.hash_registros)) :
            /\ LlamadasDe(SubSeq(d.historial_general, 1, c[1])) \cup {0}
                  = LlamadasDe(SubSeq(d.hash_registros, 1, c[2])) \cup {0}
            /\ \A k \in (c[1] + 1)..Len(d.historial_general) :
                  d.historial_general[k].llamada # 0
            /\ \A k \in (c[2] + 1)..Len(d.hash_registros) :
                  d.hash_registros[k].llamada # 0}}

\* C21: a verificar_integridad_cruzada that runs while registrar_evento calls
\* write the key returns the verdict of the ledgers as they were before or
\* after a whole call, never one that pairs rows of different calls.
C21_LecturaConsistente ==
    (lector.pc = "fin" /\ ret.op = "verificar_integridad_cruzada" /\ ret.exc = "")
        => \E p \in EstadosEntreLlamadas(conectar) :
              Veredicto(p, "empresa", 1).val = ret.val

\* C22: linea_tiempo(entidad, id) returns all and only the events of the key
\* in ascending id_evento order, and once one more event of the key is recorded
\* the query returns what it returned before followed by the new event.
C22_LineaDeTiempo ==
    /\ [](ret.op = "linea_tiempo" =>
            /\ ret.exc = ""
            /\ {ret.val[i].id_evento : i \in DOMAIN ret.val}
                  = IndicesDe(conectar, ret.args[1], ret.args[2])
            /\ \A i \in DOMAIN ret.val :
                  ret.val[i] = FilaLinea(conectar.historial_general[ret.val[i].id_evento])
            /\ \A i, j \in DOMAIN ret.val : i < j => ret.val[i].id_evento < ret.val[j].id_evento)
    /\ [][\A id \in Ids :
            (Cardinality(IndicesDe(conectar, "empresa", id)') =
                 Cardinality(IndicesDe(conectar, "empresa", id)) + 1)
            => /\ linea_tiempo("empresa", id).exc = ""
               /\ linea_tiempo("empresa", id)'.exc = ""
               /\ Len(linea_tiempo("empresa", id)'.val)
                     = Len(linea_tiempo("empresa", id).val) + 1
               /\ \A i \in DOMAIN linea_tiempo("empresa", id).val :
                     linea_tiempo("empresa", id)'.val[i] = linea_tiempo("empresa", id).val[i]
         ]_vars

\* C23: obtener_historial_entidad(entidad, id), and the chain of custody
\* generar_cadena_custodia builds from it, hold every event recorded for the
\* key, oldest first.
C23_HistorialCompleto ==
    (ret.op \in {"obtener_historial_entidad", "generar_cadena_custodia"}) =>
        /\ ret.exc = ""
        /\ LET ids == IF ret.op = "obtener_historial_entidad"
                      THEN [i \in DOMAIN ret.val |-> ret.val[i].id]
                      ELSE [i \in DOMAIN ret.val.eventos |-> ret.val.eventos[i].evento.id]
           IN  /\ {ids[i] : i \in DOMAIN ids} = IndicesDe(tx, ret.args[1], ret.args[2])
               /\ \A i, j \in DOMAIN ids : i < j => ids[i] < ids[j]

\* C24: once a running auditoria_completa is asked to stop between two
\* verifications it verifies no further key, and it returns the counts it had
\* at that moment.
C24_Cancelable ==
    lector.cancelada =>
        /\ lector.pc = "bucle" => lector.resultados = lector.al_cancelar
        /\ lector.pc = "fin" => (ret.exc = "" /\ ret.val = lector.al_cancelar)

\* C25: in a repository that opens its own connections, crear, actualizar,
\* eliminar and verificar_integridad_cruzada return: none of them ends in the
\* RecursionError of a cerrar_conexion that never returns.
C25_CerrarConexionRetorna ==
    (/\ modo = "propia"
     /\ ret.op \in {"crear", "actualizar", "eliminar", "verificar_integridad_cruzada"})
        => ret.exc # "RecursionError"

\* C26: the injected connection is open in every state, whatever operations
\* ran on it.
C26_InyectadaAbierta == modo = "inyectada" => con_abierta

\* C27: Cotizacion.verificar_integridad answers whether the hash the object
\* held when it was called (ret.args[1] is the object as it was then) is the
\* hash of its field values: False after a hashed field changed, True only
\* when they agree.
C27_DetectaCambios ==
    ret.op = "Cotizacion.verificar_integridad"
        => ret.val = (ret.args[1].hash_integridad = Cotizacion_generar_hash(ret.args[1]).val)

\* C28: an actualizar that matched no row returns False and has written
\* neither an event nor a hash record: no ledger row carries its call.
C28_ActualizarSinFila ==
    (ret.op = "actualizar" /\ ret.exc = "" /\ ret.val = FALSE)
        => Llamada(1) - 2 \notin LlamadasDe(tx.historial_general)
                                   \cup LlamadasDe(tx.hash_registros)

\* C29: a CONVERSION_CLIENTE row stored under an oportunidad key, in
\* historial_general or in hash_registros, is under the key of the oportunidad
\* the same call marked as won.
C29_ConversionBajoSuClave ==
    /\ \A i \in 1..Len(tx.historial_general) :
          LET e == tx.historial_general[i]
          IN  (e.accion = "CONVERSION_CLIENTE" /\ e.entidad = "oportunidad")
                  => \E j \in 1..Len(tx.historial_general) :
                        /\ tx.historial_general[j].accion = "MARCAR_GANADA"
                        /\ tx.historial_general[j].llamada = e.llamada - 1
                        /\ tx.historial_general[j].id_entidad = e.id_entidad
    /\ (ret.op = "linea_tiempo" /\ ret.exc = "" /\ ret.args[1] = "oportunidad")
          => \A k \in 1..Len(ret.val) :
                ret.val[k].accion = "CONVERSION_CLIENTE"
                    => \E j \in 1..Len(ret.val) : ret.val[j].accion = "MARCAR_GANADA"

\* C30: in the committed database an oportunidad in estado 'ganada' has its
\* prospecto 'convertido', its empresa a 'cliente' and its id_cliente set to
\* that empresa.
C30_ConversionTodoONada ==
    \A id \in 1..Len(db.tablas["oportunidades"]) :
        LET o == db.tablas["oportunidades"][id]
        IN  (o.vivo /\ o.estado = "ganada")
                => /\ ExisteFila(db, "prospectos", o.ref)
                   /\ db.tablas["prospectos"][o.ref].val = "convertido"
                   /\ o.id_cliente = db.tablas["prospectos"][o.ref].ref
                   /\ ExisteFila(db, "empresas", o.id_cliente)
                   /\ db.tablas["empresas"][o.id_cliente].tipo_cliente = "cliente"

====
